---- MODULE Spec2Model ----
(***************************************************************************)
(* A model of rdf-proofs: term-wise BBS+ signatures over RDF credentials.  *)
(*                                                                         *)
(* RDF terms are strings.  The cryptographic primitives are modelled       *)
(* symbolically: a hash is an injective tagging of its input, a BBS+       *)
(* signature is the record of what was signed and by which key, and a      *)
(* signature verifies exactly when that record matches what the verifier   *)
(* recomputes.  The multibase text of the k-th signature made is the       *)
(* literal "u:sig<k>"; decoding looks the signature up in the table sigs.  *)
(***************************************************************************)
EXTENDS Integers, Sequences, FiniteSets, TLC

\* ------------------------------------------------------------------ bounds

\* how many signatures are made in one behaviour
MaxSigs == 2
\* how many times the document of the credential is mutated
MaxTamper == 1

\* ------------------------------------------------------------- vocabulary

TYPE == "rdf:type"
DATA_INTEGRITY_PROOF == "sec:DataIntegrityProof"
CRYPTOSUITE == "sec:cryptosuite"
CREATED == "dc:created"
PROOF_PURPOSE == "sec:proofPurpose"
ASSERTION_METHOD == "sec:assertionMethod"
VERIFICATION_METHOD == "sec:verificationMethod"
PROOF_VALUE == "sec:proofValue"
CRYPTOSUITE_SIGN == "bbs-termwise-signature-2023"
CRYPTOSUITE_BOUND_SIGN == "bbs-termwise-bound-signature-2023"
VERIFIABLE_CREDENTIAL_TYPE == "cred:VerifiableCredential"
CHALLENGE == "sec:challenge"
\* context::DOMAIN
DOMAIN_IRI == "sec:domain"
AUTHENTICATION == "sec:authenticationMethod"
CRYPTOSUITE_PROOF == "bbs-termwise-proof-2023"
ENCRYPTED_UID == "zkp-ld:encryptedUid"

\* the multibase text of the k-th signature
SigLiteral(k) == "u:sig" \o ToString(k)

\* the canonical blank node label number i
CanonLabel(i) == "_:c14n" \o ToString(i)

\* Literals, in the order of their N-Triples form.  A literal is named by its
\* lexical value; the literals of datatype xsd:dateTime are listed below.
LiteralSeq ==
    << "**********", "1800-01-01T00:00:00Z", "2022-01-01T00:00:00Z",
       "2022-12-31T00:00:00Z", "2023-02-09T09:35:07Z", "2023-02-09T09:35:07Z (simple)",
       "John Smith", "abcde", CRYPTOSUITE_BOUND_SIGN, CRYPTOSUITE_SIGN,
       "example.org", "not-a-date", "xyz" >>
    \o [k \in 1..(MaxSigs + 3) |-> SigLiteral(k)]

\* IRIs
NamedNodeSeq ==
    << "did:example:issuer0#bls12_381-g2-pub001", "did:example:issuer1#bls12_381-g2-pub001",
       "did:example:john", "ex:Vaccination", "ex:isPatientOf", "ex:vcred00",
       CREATED, TYPE, "schema:Person", "schema:birthDate", "schema:name",
       "cred:credentialSubject", VERIFIABLE_CREDENTIAL_TYPE,
       DATA_INTEGRITY_PROOF, ASSERTION_METHOD, CRYPTOSUITE, PROOF_PURPOSE,
       PROOF_VALUE, VERIFICATION_METHOD >>

\* the name that the rng gives blank node b of a part (document or proof)
\* of the i-th credential
RandomName(i, part, b) == "_:r" \o ToString(i) \o part \o b

\* blank nodes: those of the credentials, the placeholders of the holder,
\* the random names, then the canonical labels
BlankNodeSeq ==
    << "_:b0", "_:b1", "_:p0", "_:e0", "_:e1", "_:e2", "_:e3", "_:e4",
       RandomName(1, "d", "_:b0"), RandomName(1, "d", "_:b1"), RandomName(1, "p", "_:p0"),
       RandomName(2, "d", "_:b0"), RandomName(2, "d", "_:b1"), RandomName(2, "p", "_:p0") >>
    \o [i \in 1..6 |-> CanonLabel(i - 1)]

Range(s) == {s[i] : i \in DOMAIN s}

Literals == Range(LiteralSeq)
NamedNodes == Range(NamedNodeSeq)
BlankNodes == Range(BlankNodeSeq)

\* the order of terms in a serialized triple: '"' < '<' < '_'
TermOrder == LiteralSeq \o NamedNodeSeq \o BlankNodeSeq
Terms == Range(TermOrder)
Rank ==
    LET PositionIn(order) ==
            [t \in Range(order) |-> CHOOSE i \in DOMAIN order : order[i] = t]
    IN  PositionIn(TermOrder)

\* xsd:dateTime literals and the lexical values DateTime::from_str accepts
DateTimeTyped ==
    {"1800-01-01T00:00:00Z", "2022-01-01T00:00:00Z", "2022-12-31T00:00:00Z",
     "2023-02-09T09:35:07Z", "not-a-date"}
DateTimeParsable ==
    {"1800-01-01T00:00:00Z", "2022-01-01T00:00:00Z", "2022-12-31T00:00:00Z",
     "2023-02-09T09:35:07Z", "2023-02-09T09:35:07Z (simple)"}

\* ------------------------------------------------------------------ graphs

\* a triple is <<subject, predicate, object>>; a graph is a set of triples
Subj(t) == t[1]
Pred(t) == t[2]
Obj(t) == t[3]

TripleLess(a, b) ==
    LET Less(rank) ==
            \/ rank[a[1]] < rank[b[1]]
            \/ a[1] = b[1] /\ rank[a[2]] < rank[b[2]]
            \/ a[1] = b[1] /\ a[2] = b[2] /\ rank[a[3]] < rank[b[3]]
    IN  Less(Rank)

\* the first of a set of terms, in the graph's iteration order
FirstTerm(S) ==
    LET First(rank) == CHOOSE x \in S : \A y \in S : rank[x] <= rank[y]
    IN  First(Rank)

\* rdf_canon::sort_graph: the triples by their serialized form
RECURSIVE sort_graph(_)
sort_graph(g) ==
    IF g = {} THEN << >>
    ELSE LET Then(m) == << m >> \o sort_graph(g \ {m})
         IN  Then(CHOOSE x \in g : \A y \in g : x = y \/ TripleLess(x, y))

\* lexicographic order on two sorted triple lists of one length
RECURSIVE SeqLess(_, _)
SeqLess(x, y) ==
    IF x = << >> \/ y = << >> THEN FALSE
    ELSE \/ TripleLess(Head(x), Head(y))
         \/ Head(x) = Head(y) /\ SeqLess(Tail(x), Tail(y))

BlankNodesOf(g) == ({Subj(t) : t \in g} \cup {Obj(t) : t \in g}) \cap BlankNodes

RelabelTerm(x, f) == IF x \in DOMAIN f THEN f[x] ELSE x

\* rdf_canon::relabel_graph
relabel_graph(g, f) ==
    {<< RelabelTerm(Subj(t), f), Pred(t), RelabelTerm(Obj(t), f) >> : t \in g}

\* rdf_canon::issue_graph: the canonical relabelling of the blank nodes of g.
\* Of all the ways to name the k blank nodes _:c14n0 .. _:c14n(k-1) it is
\* the one whose relabelled graph serializes least, so that isomorphic
\* graphs (equal up to blank node names) get one canonical form.
issue_graph(g) ==
    LET bs == BlankNodesOf(g)
        labels == {CanonLabel(i) : i \in 0..(Cardinality(bs) - 1)}
        ways == {f \in [bs -> labels] : \A a, b \in bs : f[a] = f[b] => a = b}
        serialized(f) == sort_graph(relabel_graph(g, f))
        Least(among) ==
            CHOOSE f \in among : \A h \in among : ~SeqLess(serialized(h), serialized(f))
    IN  Least(ways)

RECURSIVE TermsOfTriples(_)
TermsOfTriples(ts) ==
    IF ts = << >> THEN << >>
    ELSE << Subj(Head(ts)), Pred(Head(ts)), Obj(Head(ts)) >> \o TermsOfTriples(Tail(ts))

\* signature.rs _canonicalize_into_terms
canonicalize_into_terms(g) ==
    TermsOfTriples(sort_graph(relabel_graph(g, issue_graph(g))))

\* ------------------------------------------------------- results and keys

Ok == "Ok"

\* the absent term (Option::None)
None == "None"

\* the absent triple
NoTriple == << None, None, None >>

\* the verification methods of the issuers
Issuer0 == "did:example:issuer0#bls12_381-g2-pub001"
Issuer1 == "did:example:issuer1#bls12_381-g2-pub001"

\* DocumentLoader::get_keypair: the secret key of a verification method
get_keypair(vm) == "sk:" \o vm

\* DocumentLoader::get_public_key / KeyGraph::get_public_key
get_public_key(vm) == "pk:" \o vm

\* the public key that belongs to a secret key
PublicKeyOf(sk) == CHOOSE pk \in {get_public_key(vm) : vm \in {Issuer0, Issuer1}} :
                       \E vm \in {Issuer0, Issuer1} : sk = get_keypair(vm) /\ pk = get_public_key(vm)

\* keygen::generate_params: the parameters for n messages
generate_params(n) == [message_count |-> n]

\* the hasher's hash_to_field over a byte string
hash_to_field(bytes) == "H(" \o bytes \o ")"

DELIMITER == "__DELIMITER__"

\* no signature
NoSig == [sk |-> None, params |-> generate_params(0), messages |-> << >>, blinding |-> None]

\* BBSSignatureG1::new: a signature binds the key, the parameters and the
\* messages, in their order
BBSSignatureG1_new(messages, sk, params) ==
    [sk |-> sk, params |-> params, messages |-> messages, blinding |-> None]

\* BBSSignatureG1::verify
BBSSignatureG1_verify(signature, messages, pk, params) ==
    /\ signature.sk # None
    /\ signature.blinding = None
    /\ pk = PublicKeyOf(signature.sk)
    /\ params = signature.params
    /\ messages = signature.messages

\* multibase::decode then deserialize_compressed: the signature a proof
\* value stands for, in the table of the signatures made so far
DecodeSignature(proof_value, table) ==
    IF \E k \in DOMAIN table : SigLiteral(k) = proof_value
    THEN table[CHOOSE k \in DOMAIN table : SigLiteral(k) = proof_value]
    ELSE NoSig

\* ------------------------------------------------------------ signature.rs

\* Graph::subject_for_predicate_object
subject_for_predicate_object(g, p, o) ==
    LET found == {Subj(t) : t \in {u \in g : Pred(u) = p /\ Obj(u) = o}}
    IN  IF found = {} THEN None ELSE FirstTerm(found)

\* Graph::object_for_subject_predicate
object_for_subject_predicate(g, s, p) ==
    LET found == {Obj(t) : t \in {u \in g : Subj(u) = s /\ Pred(u) = p}}
    IN  IF found = {} THEN None ELSE FirstTerm(found)

\* Graph::triples_for_predicate
triples_for_predicate(g, p) == {t \in g : Pred(t) = p}

\* a transform that canonicalizes the proof options along with the document
transform_with_proof(unsecured_document, proof_options) ==
    canonicalize_into_terms(unsecured_document \cup proof_options)

\* a transform that keeps the blank nodes of the document as they are named
transform_as_named(unsecured_document, proof_options) ==
    TermsOfTriples(sort_graph(unsecured_document))

transform(unsecured_document, proof_options) ==
    canonicalize_into_terms(unsecured_document)

configure_proof_core(proof_options, expected_cryptosuite) ==
    LET proof_options_subject ==
            subject_for_predicate_object(proof_options, TYPE, DATA_INTEGRITY_PROOF)
        cryptosuite ==
            object_for_subject_predicate(proof_options, proof_options_subject, CRYPTOSUITE)
        created ==
            object_for_subject_predicate(proof_options, proof_options_subject, CREATED)
    IN  IF proof_options_subject = None
        THEN [err |-> "InvalidProofConfiguration", val |-> << >>]
        ELSE IF cryptosuite = None \/ cryptosuite \notin Literals \/ cryptosuite # expected_cryptosuite
        THEN [err |-> "InvalidProofConfiguration", val |-> << >>]
        ELSE IF created = None \/ created \notin Literals
                \/ created \notin DateTimeParsable \/ created \notin DateTimeTyped
        THEN [err |-> "InvalidProofDatetime", val |-> << >>]
        ELSE [err |-> Ok, val |-> canonicalize_into_terms(proof_options)]

\* a configure_proof that does not look at the datatype of created
configure_proof_of_any_datatype(proof_options) ==
    LET created == object_for_subject_predicate(
                       proof_options,
                       subject_for_predicate_object(proof_options, TYPE, DATA_INTEGRITY_PROOF),
                       CREATED)
        Configured(r) ==
            IF r.err = "InvalidProofDatetime" /\ created \in DateTimeParsable
            THEN [err |-> Ok, val |-> canonicalize_into_terms(proof_options)]
            ELSE r
    IN  Configured(configure_proof_core(proof_options, CRYPTOSUITE_SIGN))

configure_proof(proof_options) ==
    configure_proof_core(proof_options, CRYPTOSUITE_SIGN)

hash_terms_to_field(terms) == [i \in DOMAIN terms |-> hash_to_field(terms[i])]

\* a hash that leaves the document out
hash_proof_only(transformed_document, canonical_proof_config) ==
    << hash_to_field(DELIMITER) >> \o hash_terms_to_field(canonical_proof_config)

hash(transformed_document, canonical_proof_config) ==
    hash_terms_to_field(transformed_document)
        \o << hash_to_field(DELIMITER) >>
        \o hash_terms_to_field(canonical_proof_config)

get_verification_method_identifier(proof_options) ==
    LET proof_options_subject ==
            subject_for_predicate_object(proof_options, TYPE, DATA_INTEGRITY_PROOF)
        verification_method_identifier ==
            object_for_subject_predicate(proof_options, proof_options_subject, VERIFICATION_METHOD)
    IN  IF proof_options_subject = None \/ verification_method_identifier = None
        THEN [err |-> "InvalidProofConfiguration", val |-> None]
        ELSE IF verification_method_identifier \notin NamedNodes
        THEN [err |-> "InvalidVerificationMethodURL", val |-> None]
        ELSE [err |-> Ok, val |-> verification_method_identifier]

serialize_proof(hash_data, proof_options) ==
    LET message_count == Len(hash_data)
        Serialized(vm) ==
            IF vm.err # Ok THEN [err |-> vm.err, sig |-> NoSig]
            ELSE [err |-> Ok,
                  sig |-> BBSSignatureG1_new(hash_data, get_keypair(vm.val),
                                             generate_params(message_count))]
    IN  Serialized(get_verification_method_identifier(proof_options))

\* an add_proof_value that puts the proof value in the place of the proof
\* purpose
add_proof_value_over_purpose(unsecured_credential, proof_value) ==
    LET proof == unsecured_credential.proof
        proof_subject == subject_for_predicate_object(proof, TYPE, DATA_INTEGRITY_PROOF)
    IN  [unsecured_credential EXCEPT
            !.proof = {t \in proof : Pred(t) # PROOF_PURPOSE}
                          \cup {<< proof_subject, PROOF_VALUE, proof_value >>}]

add_proof_value(unsecured_credential, proof_value) ==
    LET proof == unsecured_credential.proof
        proof_subject == subject_for_predicate_object(proof, TYPE, DATA_INTEGRITY_PROOF)
    IN  [unsecured_credential EXCEPT
            !.proof = proof \cup {<< proof_subject, PROOF_VALUE, proof_value >>}]

\* a verify_base_proof that accepts every signature that decodes
verify_base_proof_of_any_signature(hash_data, proof_value, proof_config, table) ==
    IF DecodeSignature(proof_value, table) = NoSig THEN "BBSPlus(Serialization)" ELSE Ok

verify_base_proof(hash_data, proof_value, proof_config, table) ==
    LET signature == DecodeSignature(proof_value, table)
        Verified(vm) ==
            IF vm.err # Ok THEN vm.err
            ELSE IF BBSSignatureG1_verify(signature, hash_data, get_public_key(vm.val),
                                          generate_params(Len(hash_data)))
            THEN Ok
            ELSE "BBSPlus(InvalidSignature)"
    IN  IF signature = NoSig THEN "BBSPlus(Serialization)"
        ELSE Verified(get_verification_method_identifier(proof_config))

\* sign: the k-th signature made.  The result holds the error, the
\* credential as sign leaves it, and the signature behind the proof value.
sign(unsecured_credential, k) ==
    LET document == unsecured_credential.document
        proof == unsecured_credential.proof
        transformed_data == transform(document, proof)
        Added(proof_value) ==
            IF proof_value.err # Ok
            THEN [err |-> proof_value.err, vc |-> unsecured_credential, sig |-> NoSig]
            ELSE [err |-> Ok,
                  vc |-> add_proof_value(unsecured_credential, SigLiteral(k)),
                  sig |-> proof_value.sig]
        Signed(canonical_proof_config) ==
            IF canonical_proof_config.err # Ok
            THEN [err |-> canonical_proof_config.err, vc |-> unsecured_credential,
                  sig |-> NoSig]
            ELSE Added(serialize_proof(hash(transformed_data, canonical_proof_config.val),
                                       proof))
    IN  Signed(configure_proof(proof))

\* verify, given the proofValue triple that the iteration over the proof
\* graph yields first (NoTriple when there is none)
verify(secured_credential, proof_value_triple, table) ==
    LET document == secured_credential.document
        proof == secured_credential.proof
        proof_config == {t \in proof : Pred(t) # PROOF_VALUE}
        transformed_data == transform(document, proof)
        Verified(canonical_proof_config) ==
            IF canonical_proof_config.err # Ok THEN canonical_proof_config.err
            ELSE verify_base_proof(hash(transformed_data, canonical_proof_config.val),
                                   Obj(proof_value_triple), proof_config, table)
    IN  IF proof_value_triple = NoTriple THEN "MalformedProof"
        ELSE IF Obj(proof_value_triple) \notin Literals THEN "MalformedProof"
        ELSE Verified(configure_proof(proof_config))

\* ------------------------------------------------------------ proof system

\* ProofSpec::new
ProofSpec_new(statements, meta_statements, context) ==
    [statements |-> statements, meta_statements |-> meta_statements, context |-> context]

\* PedersenCommitment::new_statement_from_params
PedersenCommitment_new_statement_from_params(bases, commitment) ==
    [kind |-> "PedersenCommitment", bases |-> bases, commitment |-> commitment]

\* SignatureParams::commit_to_messages: the Pedersen commitment to the
\* messages under the blinding
commit_to_messages(bases, messages, blinding) ==
    [bases |-> bases, messages |-> messages, blinding |-> blinding]

\* PoKBBSSignatureG1::new_statement_from_params: knowledge of a signature
\* under the public key on messages of which the revealed ones are given,
\* as pairs << index, message >>
PoKBBSSignatureG1_new_statement_from_params(params, public_key, revealed) ==
    [kind |-> "PoKBBSSignatureG1", params |-> params,
     public_key |-> public_key, revealed |-> revealed]

\* PoKBBSSignatureG1::new_as_witness
PoKBBSSignatureG1_new_as_witness(signature, unrevealed) ==
    [signature |-> signature, unrevealed |-> unrevealed]

\* the messages 0 .. n-1 that the revealed and the unrevealed pairs make up
AssembleMessages(revealed, unrevealed, n) ==
    [i \in 1..n |->
        LET hits == {p \in revealed \cup unrevealed : p[1] = i - 1}
        IN  IF Cardinality(hits) = 1 THEN (CHOOSE p \in hits : TRUE)[2] ELSE None]

\* the ElGamal ciphertext of a message under the key of the opener
ElGamalCiphertext(opener_pub_key, message) ==
    "u:enc(" \o opener_pub_key \o "," \o message \o ")"

\* the circuits of the verifier: lessThanPrvPub holds when the private
\* input is less than the public one, lessThanEqPrvPub when it is less or
\* equal
LessThanPrvPub == "circuit:lessThanPrvPub"
LessThanEqPrvPub == "circuit:lessThanEqPrvPub"

\* the number that a field element is: the hash of a literal of datatype
\* xsd:dateTime is its timestamp, here its place in the order of time
FrNumber(fr) ==
    IF fr = hash_to_field("1800-01-01T00:00:00Z") THEN 1
    ELSE IF fr = hash_to_field("2022-01-01T00:00:00Z") THEN 2
    ELSE IF fr = hash_to_field("2022-12-31T00:00:00Z") THEN 3
    ELSE 0

\* whether the inputs of a witness satisfy the constraints of a circuit
CircuitHolds(circuit, private, public) ==
    /\ Len(private) = 1
    /\ Len(public) = 1
    /\ IF circuit = LessThanPrvPub THEN FrNumber(private[1]) < FrNumber(public[1])
       ELSE FrNumber(private[1]) <= FrNumber(public[1])

\* whether a witness is one of the relation that a statement states
WitnessSatisfies(statement, witness) ==
    IF statement.kind = "PedersenCommitment"
    THEN /\ statement.commitment.bases = statement.bases
         /\ witness = (IF Len(statement.bases) = Len(statement.commitment.messages)
                       THEN statement.commitment.messages
                       ELSE << statement.commitment.blinding >>
                                \o statement.commitment.messages)
    ELSE IF statement.kind = "ElGamalEncryption"
    THEN statement.cipher_text = ElGamalCiphertext(statement.opener_pub_key, witness[1])
    ELSE IF statement.kind = "R1CSCircomProver"
    THEN CircuitHolds(statement.circuit, witness.private, witness.public)
    ELSE BBSSignatureG1_verify(
             witness.signature,
             AssembleMessages(statement.revealed, witness.unrevealed,
                              statement.params.message_count),
             statement.public_key, statement.params)

\* the witness value that a reference << statement index, witness index >>
\* of a meta statement stands for
WitnessValue(statements, witnesses, ref) ==
    LET statement == statements[ref[1] + 1]
        witness == witnesses[ref[1] + 1]
    IN  IF statement.kind \in {"PedersenCommitment", "ElGamalEncryption"}
        THEN witness[ref[2] + 1]
        ELSE IF statement.kind = "R1CSCircomProver" THEN witness.private[ref[2] + 1]
        ELSE LET hits == {p \in witness.unrevealed : p[1] = ref[2]}
             IN  IF hits = {} THEN None ELSE (CHOOSE p \in hits : TRUE)[2]

\* Proof::new: a proof is bound to its proof spec and nonce; it is sound
\* when the witnesses satisfy the statements and the witness equalities
\* of the meta statements
Proof_new(proof_spec, witnesses, nonce) ==
    [spec |-> proof_spec,
     nonce |-> nonce,
     sound |-> /\ Len(witnesses) = Len(proof_spec.statements)
               /\ \A i \in DOMAIN witnesses :
                      WitnessSatisfies(proof_spec.statements[i], witnesses[i])
               /\ \A equal \in proof_spec.meta_statements :
                      \A a, b \in equal :
                          WitnessValue(proof_spec.statements, witnesses, a)
                              = WitnessValue(proof_spec.statements, witnesses, b)]

\* Proof::verify
Proof_verify(proof, proof_spec, nonce) ==
    /\ proof.spec = proof_spec
    /\ proof.nonce = nonce
    /\ proof.sound

\* ------------------------------------------------------ blind_signature.rs

BLIND_SIG_REQUEST_CONTEXT == "BLIND_SIG_REQUEST_CONTEXT"

\* the bases h_0, h[0] of generate_params(1)
RequestBases == << "h_0", "h[0]" >>

\* common::hash_byte_to_field
hash_byte_to_field(bytes) == hash_to_field(bytes)

\* blind_sig_request, with the blinding that the rng yields
blind_sig_request(blinding, secret, nonce) ==
    LET bases == RequestBases
        secret_int == hash_byte_to_field(secret)
        commitment == commit_to_messages(bases, << secret_int >>, blinding)
        statements == << PedersenCommitment_new_statement_from_params(bases, commitment) >>
        proof_spec == ProofSpec_new(statements, {}, BLIND_SIG_REQUEST_CONTEXT)
        witnesses == << << blinding, secret_int >> >>
    IN  [request |-> [commitment |-> commitment,
                      proof |-> Proof_new(proof_spec, witnesses, nonce)],
         blinding |-> blinding]

\* a verification of the request that does not bind the nonce
verify_blind_sig_request_of_any_nonce(commitment, proof, nonce) ==
    LET bases == RequestBases
        statements == << PedersenCommitment_new_statement_from_params(bases, commitment) >>
        proof_spec == ProofSpec_new(statements, {}, BLIND_SIG_REQUEST_CONTEXT)
    IN  IF Proof_verify(proof, proof_spec, proof.nonce) THEN Ok ELSE "ProofVerification"

verify_blind_sig_request(commitment, proof, nonce) ==
    LET bases == RequestBases
        statements == << PedersenCommitment_new_statement_from_params(bases, commitment) >>
        proof_spec == ProofSpec_new(statements, {}, BLIND_SIG_REQUEST_CONTEXT)
    IN  IF Proof_verify(proof, proof_spec, nonce) THEN Ok ELSE "ProofVerification"

\* BBSPlusSignature::new_with_committed_messages: a signature over the
\* committed message at index 0 and the uncommitted ones after it, blinded
\* by the blinding of the commitment
new_with_committed_messages(commitment, uncommitted_messages, sk, params) ==
    [sk |-> sk,
     params |-> params,
     messages |-> commitment.messages \o uncommitted_messages,
     blinding |-> commitment.blinding]

\* a blind signature under the parameters for the encoded terms alone
serialize_proof_for_terms_alone(commitment, hash_data, proof_options) ==
    LET message_count == Len(hash_data)
        Serialized(vm) ==
            IF vm.err # Ok THEN [err |-> vm.err, sig |-> NoSig]
            ELSE [err |-> Ok,
                  sig |-> new_with_committed_messages(commitment, hash_data,
                              get_keypair(vm.val), generate_params(message_count))]
    IN  Serialized(get_verification_method_identifier(proof_options))

serialize_proof_with_comitted_messages(commitment, hash_data, proof_options) ==
    LET message_count == Len(hash_data) + 1
        Serialized(vm) ==
            IF vm.err # Ok THEN [err |-> vm.err, sig |-> NoSig]
            ELSE [err |-> Ok,
                  sig |-> new_with_committed_messages(commitment, hash_data,
                              get_keypair(vm.val), generate_params(message_count))]
    IN  Serialized(get_verification_method_identifier(proof_options))

\* blind_sign_core: the error and the signature behind the proof value
blind_sign_core(request, nonce, unsecured_credential) ==
    LET document == unsecured_credential.document
        proof == unsecured_credential.proof
        checked == verify_blind_sig_request(request.commitment, request.proof, nonce)
        transformed_data == transform(document, proof)
        Signed(canonical_proof_config) ==
            IF canonical_proof_config.err # Ok
            THEN [err |-> canonical_proof_config.err, sig |-> NoSig]
            ELSE serialize_proof_with_comitted_messages(
                     request.commitment,
                     hash(transformed_data, canonical_proof_config.val), proof)
        Checked(error) ==
            IF error # Ok THEN [err |-> error, sig |-> NoSig]
            ELSE Signed(configure_proof(proof))
    IN  Checked(checked)

\* blind_sign: the k-th signature made
blind_sign(request, nonce, unsecured_credential, k) ==
    LET Added(proof_value) ==
            IF proof_value.err # Ok
            THEN [err |-> proof_value.err, vc |-> unsecured_credential, sig |-> NoSig]
            ELSE [err |-> Ok,
                  vc |-> add_proof_value(unsecured_credential, SigLiteral(k)),
                  sig |-> proof_value.sig]
    IN  Added(blind_sign_core(request, nonce, unsecured_credential))

\* unblind: the holder takes the blinding off the signature behind a proof
\* value of the credential; the unblinded signature is the k-th one made
unblind(secured_credential, proof_value_triple, blinding, table, k) ==
    LET blinded == DecodeSignature(Obj(proof_value_triple), table)
        unblinded == [blinded EXCEPT !.blinding = IF @ = blinding THEN None ELSE "mixed"]
    IN  IF proof_value_triple = NoTriple \/ Obj(proof_value_triple) \notin Literals
        THEN [err |-> "MalformedProof", vc |-> secured_credential, sig |-> NoSig]
        ELSE IF blinded = NoSig
        THEN [err |-> "BBSPlus(Serialization)", vc |-> secured_credential, sig |-> NoSig]
        ELSE [err |-> Ok,
              vc |-> [secured_credential EXCEPT
                         !.proof = (@ \ {proof_value_triple})
                                   \cup {[proof_value_triple EXCEPT ![3] = SigLiteral(k)]}],
              sig |-> unblinded]

\* a blind_verify that takes the message at index 0 from the signature
blind_verify_of_any_secret(secret, secured_credential, proof_value_triple, table) ==
    LET proof_config == {t \in secured_credential.proof : Pred(t) # PROOF_VALUE}
        signature == DecodeSignature(Obj(proof_value_triple), table)
        Verified(canonical_proof_config) ==
            IF canonical_proof_config.err # Ok THEN canonical_proof_config.err
            ELSE verify_base_proof(
                     SubSeq(signature.messages, 1, 1)
                         \o hash(transform(secured_credential.document, proof_config),
                                 canonical_proof_config.val),
                     Obj(proof_value_triple), proof_config, table)
    IN  IF proof_value_triple = NoTriple THEN "MalformedProof"
        ELSE IF Obj(proof_value_triple) \notin Literals THEN "MalformedProof"
        ELSE Verified(configure_proof_core(proof_config, CRYPTOSUITE_BOUND_SIGN))

\* blind_verify: verify with the hash of the secret at index 0, for a
\* credential of the bound cryptosuite
blind_verify(secret, secured_credential, proof_value_triple, table) ==
    LET document == secured_credential.document
        proof == secured_credential.proof
        proof_config == {t \in proof : Pred(t) # PROOF_VALUE}
        transformed_data == transform(document, proof)
        Verified(canonical_proof_config) ==
            IF canonical_proof_config.err # Ok THEN canonical_proof_config.err
            ELSE verify_base_proof(
                     << hash_byte_to_field(secret) >>
                         \o hash(transformed_data, canonical_proof_config.val),
                     Obj(proof_value_triple), proof_config, table)
    IN  IF proof_value_triple = NoTriple THEN "MalformedProof"
        ELSE IF Obj(proof_value_triple) \notin Literals THEN "MalformedProof"
        ELSE Verified(configure_proof_core(proof_config, CRYPTOSUITE_BOUND_SIGN))

\* ------------------------------------------------------------------- vc.rs

\* From<&VerifiableCredential> for VerifiableCredentialTriples: the triples
\* of the two graphs, each sorted by its serialized form
VerifiableCredentialTriples_from(credential) ==
    [document |-> sort_graph(credential.document),
     proof |-> sort_graph(credential.proof)]

\* ----------------------------------------------------------- presentations

\* A presentation is [proof, proof_value, vcs, holder, predicates]: its
\* proof graph without the proof value triple, what the proof value literal
\* encodes (a proof and an index map), the graphs of its disclosed
\* credentials in the order of the canonical names of those graphs, the
\* secret commitment of its holder (that of no request when it names no
\* holder), and its
\* predicates.  The blank nodes that name the presentation, its proof, its
\* holder and the graphs are left out of the relabelling.

\* the subject of the proof graph of a presentation
VpProofId == "_:vpproof"

\* the literal of Utc::now()
CreatedNow == "now"

\* a value, once computed, under a name: let x = value; then(x)
Let(value, then(_)) == then(value)

\* the first error of a list of results
FirstError(errs) ==
    IF \A i \in DOMAIN errs : errs[i] = Ok THEN Ok
    ELSE errs[CHOOSE i \in DOMAIN errs :
                  errs[i] # Ok /\ \A j \in DOMAIN errs : errs[j] # Ok => i <= j]

\* rdf_canon::serialize, of credential graphs relabelled by f
RECURSIVE serialize_vcs(_, _)
serialize_vcs(vcs, f) ==
    IF vcs = << >> THEN << >>
    ELSE sort_graph(relabel_graph(Head(vcs).document, f))
             \o sort_graph(relabel_graph(Head(vcs).proof, f))
             \o serialize_vcs(Tail(vcs), f)

\* rdf_canon::issue on a presentation: the canonical relabelling of the
\* blank nodes of its credential graphs, the one that serializes least
issue(vcs) ==
    LET bs == UNION {BlankNodesOf(vcs[i].document) \cup BlankNodesOf(vcs[i].proof) :
                        i \in DOMAIN vcs}
        labels == {CanonLabel(i) : i \in 0..(Cardinality(bs) - 1)}
        ways == {f \in [bs -> labels] : \A a, b \in bs : f[a] = f[b] => a = b}
        serialized == [f \in ways |-> serialize_vcs(vcs, f)]
    IN  CHOOSE f \in ways : \A h \in ways : ~SeqLess(serialized[h], serialized[f])

\* rdf_canon::relabel
relabel(vcs, f) ==
    [i \in DOMAIN vcs |-> [document |-> relabel_graph(vcs[i].document, f),
                           proof |-> relabel_graph(vcs[i].proof, f)]]

\* common::hash_term_to_field
hash_term_to_field(term) == hash_to_field(term)

\* common::get_delimiter
get_delimiter == hash_to_field(DELIMITER)

\* common::generate_proof_spec_context: the serialized canonical
\* presentation with the index map
generate_proof_spec_context(canonicalized_vp, index_map) ==
    [vp |-> canonicalized_vp, index_map |-> index_map]

\* common::reorder_vc_triples: the disclosed triples at their positions in
\* the original lists, NoTriple at the positions not disclosed
reorder_vc_triples(vc_triples, index_map) ==
    [i \in DOMAIN vc_triples |->
        LET Place(triples, map, len) ==
                [j \in 1..len |->
                    IF \E x \in DOMAIN triples : x \in DOMAIN map /\ map[x] = j - 1
                    THEN triples[CHOOSE x \in DOMAIN triples :
                                     x \in DOMAIN map /\ map[x] = j - 1]
                    ELSE NoTriple]
        IN  [document |-> Place(vc_triples[i].document, index_map[i].document_map,
                                index_map[i].document_len),
             proof |-> Place(vc_triples[i].proof, index_map[i].proof_map,
                             index_map[i].proof_len)]]

\* the witness equalities of an equivalence table: for every key the set
\* of its positions, when they are more than one
EqualWitnessesOfAnySize(equivs) ==
    {{e[2] : e \in {x \in equivs : x[1] = k}} : k \in {e[1] : e \in equivs}}

EqualWitnesses(equivs) ==
    {S \in {{e[2] : e \in {x \in equivs : x[1] = k}} : k \in {e[1] : e \in equivs}} :
        Cardinality(S) > 1}

\* ---------------------------------------------------------- verify_proof.rs

\* a nonce check that does not compare the two challenges
nonce_check_of_presence(nonce, vp_proof) ==
    LET challenges == {Obj(t) : t \in triples_for_predicate(vp_proof, CHALLENGE)}
    IN  IF nonce = None /\ challenges # {} THEN "MissingChallengeInRequest"
        ELSE IF nonce # None /\ challenges = {} THEN "MissingChallengeInVP"
        ELSE Ok

\* the nonce check of verify_proof
nonce_check(nonce, vp_proof) ==
    LET challenges == {Obj(t) : t \in triples_for_predicate(vp_proof, CHALLENGE)}
        nonce_in_vp == IF challenges = {} THEN None ELSE FirstTerm(challenges)
    IN  IF nonce_in_vp # None /\ nonce_in_vp \notin Literals
        THEN "InvalidChallengeDatatype"
        ELSE IF nonce = None /\ nonce_in_vp = None THEN Ok
        ELSE IF nonce = None THEN "MissingChallengeInRequest"
        ELSE IF nonce_in_vp = None THEN "MissingChallengeInVP"
        ELSE IF nonce = nonce_in_vp THEN Ok
        ELSE "MismatchedChallenge"

get_public_keys_from_graphview(proof_graph) ==
    LET vms == {Obj(t) : t \in triples_for_predicate(proof_graph, VERIFICATION_METHOD)}
    IN  IF vms = {} THEN [err |-> "InvalidVerificationMethod", val |-> None]
        ELSE IF FirstTerm(vms) \notin NamedNodes
        THEN [err |-> "InvalidVerificationMethodURL", val |-> None]
        ELSE [err |-> Ok, val |-> get_public_key(FirstTerm(vms))]

\* the terms of a disclosed triple: the hash of a disclosed term at its
\* index, and the position of a hidden one (a blank node) under its name
build_disclosed_terms(disclosed_triple, subject_index, vc_index) ==
    IF disclosed_triple = NoTriple THEN [disclosed |-> {}, equivs |-> {}]
    ELSE LET hidden == {k \in {0, 2} : disclosed_triple[k + 1] \in BlankNodes}
         IN  [disclosed |->
                  {<< subject_index + k, hash_term_to_field(disclosed_triple[k + 1]) >> :
                      k \in (0..2) \ hidden},
              equivs |->
                  {<< disclosed_triple[k + 1], << vc_index, subject_index + k >> >> :
                      k \in hidden}]

get_disclosed_terms(disclosed_vc_triples, vc_index) ==
    LET disclosed_document == disclosed_vc_triples.document
        disclosed_proof == disclosed_vc_triples.proof
        delimiter_index == Len(disclosed_document) * 3
        proof_index == delimiter_index + 1
        document_terms ==
            [j \in DOMAIN disclosed_document |->
                build_disclosed_terms(disclosed_document[j], 3 * (j - 1), vc_index)]
        proof_terms ==
            [j \in DOMAIN disclosed_proof |->
                build_disclosed_terms(disclosed_proof[j], 3 * (j - 1) + proof_index, vc_index)]
    IN  [disclosed |->
             UNION {document_terms[j].disclosed : j \in DOMAIN document_terms}
                 \cup {<< delimiter_index, get_delimiter >>}
                 \cup UNION {proof_terms[j].disclosed : j \in DOMAIN proof_terms},
         equivs |->
             UNION {document_terms[j].equivs : j \in DOMAIN document_terms}
                 \cup UNION {proof_terms[j].equivs : j \in DOMAIN proof_terms},
         term_count |-> (Len(disclosed_document) + Len(disclosed_proof)) * 3 + 1]

\* no blind sign request: no commitment and no blinding
NoBlindSignRequest ==
    [commitment |-> commit_to_messages(<< >>, << >>, None), blinding |-> None]

\* no proof value
NoProofValue ==
    [proof |-> Proof_new(ProofSpec_new(<< >>, {}, None), << >>, None), index_map |-> << >>]

\* key_gen::generate_ppid: the pseudonym of a secret for a domain, the
\* commitment to the hash of the secret under the base of the domain
generate_ppid(domain, secret) ==
    [base |-> "base(" \o domain \o ")",
     ppid |-> commit_to_messages(<< "base(" \o domain \o ")" >>,
                                 << hash_byte_to_field(secret) >>, None)]

\* no pseudonym
NoPPID == [base |-> None, ppid |-> commit_to_messages(<< >>, << >>, None)]

\* get_ppid
get_ppid(domain, secret, with_nym) ==
    IF ~with_nym THEN [err |-> Ok, val |-> NoPPID]
    ELSE IF domain # None /\ secret # None
    THEN [err |-> Ok, val |-> generate_ppid(domain, secret)]
    ELSE [err |-> "MissingSecretOrDomain", val |-> NoPPID]

\* no presentation
NoVP ==
    [proof |-> {}, proof_value |-> NoProofValue, vcs |-> << >>,
     holder |-> NoBlindSignRequest.commitment, holder_id |-> NoPPID.ppid,
     predicates |-> << >>]

\* a verify_proof that leaves the nonce check out
verify_proof_without_nonce_check(vp, nonce) ==
    IF vp.proof_value = NoProofValue THEN "InvalidVP"
    ELSE IF Proof_verify(vp.proof_value.proof, vp.proof_value.proof.spec, nonce)
    THEN Ok ELSE "ProofSystem"

verify_proof(vp, nonce) ==
    IF vp.proof_value = NoProofValue THEN "InvalidVP"
    ELSE
    Let(nonce_check(nonce, vp.proof), LAMBDA checked :
    IF checked # Ok THEN checked
    ELSE
    Let(relabel(vp.vcs, issue(vp.vcs)), LAMBDA c14n_disclosed_vc_graphs :
    Let([i \in DOMAIN c14n_disclosed_vc_graphs |->
            get_public_keys_from_graphview(c14n_disclosed_vc_graphs[i].proof)],
        LAMBDA public_keys :
    Let(FirstError([i \in DOMAIN public_keys |-> public_keys[i].err]), LAMBDA key_error :
    IF key_error # Ok THEN key_error
    ELSE
    Let(reorder_vc_triples(
            [i \in DOMAIN c14n_disclosed_vc_graphs |->
                VerifiableCredentialTriples_from(c14n_disclosed_vc_graphs[i])],
            vp.proof_value.index_map),
        LAMBDA reordered_vc_triples :
    Let([i \in DOMAIN reordered_vc_triples |->
            get_disclosed_terms(reordered_vc_triples[i], i - 1)],
        LAMBDA disclosed_terms :
    Let(ProofSpec_new(
            [i \in DOMAIN disclosed_terms |->
                PoKBBSSignatureG1_new_statement_from_params(
                    generate_params(disclosed_terms[i].term_count),
                    public_keys[i].val, disclosed_terms[i].disclosed)],
            EqualWitnesses(UNION {disclosed_terms[i].equivs : i \in DOMAIN disclosed_terms}),
            [vp |-> [proof |-> vp.proof, vcs |-> c14n_disclosed_vc_graphs,
                     holder |-> vp.holder, holder_id |-> vp.holder_id,
                     predicates |-> vp.predicates],
             index_map |-> vp.proof_value.index_map]),
        LAMBDA proof_spec :
    IF Proof_verify(vp.proof_value.proof, proof_spec, nonce) THEN Ok
    ELSE "ProofSystem")))))))

\* verify_proof, from "canonicalize VP" to "build proof spec": the proof
\* spec that the verifier rebuilds from a presentation
verify_proof_spec(vp) ==
    Let(relabel(vp.vcs, issue(vp.vcs)), LAMBDA c14n_disclosed_vc_graphs :
    Let([i \in DOMAIN c14n_disclosed_vc_graphs |->
            get_public_keys_from_graphview(c14n_disclosed_vc_graphs[i].proof)],
        LAMBDA public_keys :
    Let([i \in DOMAIN c14n_disclosed_vc_graphs |->
            get_disclosed_terms(
                reorder_vc_triples(
                    [j \in DOMAIN c14n_disclosed_vc_graphs |->
                        VerifiableCredentialTriples_from(c14n_disclosed_vc_graphs[j])],
                    vp.proof_value.index_map)[i],
                i - 1)],
        LAMBDA disclosed_terms :
    ProofSpec_new(
        [i \in DOMAIN disclosed_terms |->
            PoKBBSSignatureG1_new_statement_from_params(
                generate_params(disclosed_terms[i].term_count),
                public_keys[i].val, disclosed_terms[i].disclosed)],
        EqualWitnesses(UNION {disclosed_terms[i].equivs : i \in DOMAIN disclosed_terms}),
        [vp |-> [proof |-> vp.proof, vcs |-> c14n_disclosed_vc_graphs,
                 holder |-> vp.holder, holder_id |-> vp.holder_id,
                     predicates |-> vp.predicates],
         index_map |-> vp.proof_value.index_map]))))

\* ---------------------------------------------------------- derive_proof.rs

\* VerifiableCredential::is_bound: whether the cryptosuite of the proof is
\* the bound one ("true"), the plain one ("false"), or neither
is_bound(credential) ==
    LET proof_subject ==
            subject_for_predicate_object(credential.proof, TYPE, DATA_INTEGRITY_PROOF)
        cryptosuite ==
            object_for_subject_predicate(credential.proof, proof_subject, CRYPTOSUITE)
    IN  IF cryptosuite = CRYPTOSUITE_SIGN THEN "false"
        ELSE IF cryptosuite = CRYPTOSUITE_BOUND_SIGN THEN "true"
        ELSE "VCWithUnsupportedCryptosuite"

\* the proof of a credential with its proof value
get_proof_with_proof_value(credential) == credential.proof

\* VerifiableCredential::get_proof_config
get_proof_config(credential) == {t \in credential.proof : Pred(t) # PROOF_VALUE}

\* the proofValue triple that the iteration over a proof graph yields first
proof_value_triple(proof) ==
    LET found == triples_for_predicate(proof, PROOF_VALUE)
    IN  IF found = {} THEN NoTriple
        ELSE CHOOSE t \in found : \A u \in found : Rank[Obj(t)] <= Rank[Obj(u)]

\* VerifiableCredential::get_proof_value
get_proof_value(credential) == Obj(proof_value_triple(credential.proof))

\* common::randomize_bnodes_in_vc_pairs, for a part of the i-th pair: the
\* blank nodes of the original graph get random names, in the disclosed
\* graph as well; the other blank nodes of the disclosed graph are kept
randomize_bnodes_in_vc_pairs(original_graph, disclosed_graph, i, part) ==
    LET random_map == [b \in BlankNodesOf(original_graph) |-> RandomName(i, part, b)]
    IN  << relabel_graph(original_graph, random_map),
           relabel_graph(disclosed_graph, random_map) >>

get_public_keys(proof_graph) ==
    LET vms == {Obj(t) : t \in triples_for_predicate(proof_graph, VERIFICATION_METHOD)}
    IN  IF vms = {} THEN [err |-> "InvalidVerificationMethod", val |-> None]
        ELSE IF FirstTerm(vms) \notin NamedNodes
        THEN [err |-> "InvalidVerificationMethodURL", val |-> None]
        ELSE [err |-> Ok, val |-> get_public_key(FirstTerm(vms))]

\* a verification of the original credential that accepts whatever it gets
verify_original_unchecked(credential, secret, table) == Ok

\* a verification of the original credential that takes every cryptosuite
\* but the bound one for the plain one, and no secret for a secret
verify_original_by_default(credential, secret, table) ==
    IF is_bound(credential) = "true"
    THEN blind_verify(secret, credential, proof_value_triple(credential.proof), table)
    ELSE verify(credential, proof_value_triple(credential.proof), table)

\* derive_proof, "verify VCs": the verification of one original credential
verify_original(credential, secret, table) ==
    LET bound == is_bound(credential)
        t == proof_value_triple(credential.proof)
    IN  IF bound = "false" THEN verify(credential, t, table)
        ELSE IF bound = "true" /\ secret # None
        THEN blind_verify(secret, credential, t, table)
        ELSE IF bound = "true" THEN "MissingSecret"
        ELSE "VCWithUnsupportedCryptosuite"

\* the failure of a deanonymization
DeAnonymization == "DeAnonymization"

deanonymize_subject(deanon_map, subject) ==
    IF subject \notin DOMAIN deanon_map THEN subject
    ELSE IF deanon_map[subject] \in Literals THEN DeAnonymization
    ELSE deanon_map[subject]

deanonymize_named_node(deanon_map, predicate) ==
    IF predicate \notin DOMAIN deanon_map THEN predicate
    ELSE IF deanon_map[predicate] \notin NamedNodes THEN DeAnonymization
    ELSE deanon_map[predicate]

deanonymize_term(deanon_map, term) ==
    IF term \in Literals \/ term \notin DOMAIN deanon_map THEN term
    ELSE IF term \in NamedNodes /\ deanon_map[term] \in Literals THEN DeAnonymization
    ELSE deanon_map[term]

canonicalize_vcs(vcs) ==
    LET parts == [x \in 1..(2 * Len(vcs)) |->
                     IF x % 2 = 1 THEN vcs[(x + 1) \div 2].document
                     ELSE vcs[x \div 2].proof]
        maps == [x \in DOMAIN parts |-> issue_graph(parts[x])]
        keys == UNION {DOMAIN maps[x] : x \in DOMAIN parts}
    IN  IF \E x, y \in DOMAIN parts : x < y /\ DOMAIN maps[x] \cap DOMAIN maps[y] # {}
        THEN [err |-> "BlankNodeCollision", vcs |-> << >>, bnode_map |-> << >>]
        ELSE [err |-> Ok,
              vcs |-> [i \in DOMAIN vcs |->
                          [document |-> relabel_graph(vcs[i].document, maps[2 * i - 1]),
                           proof |-> relabel_graph(vcs[i].proof, maps[2 * i])]],
              bnode_map |-> [b \in keys |->
                                maps[CHOOSE x \in DOMAIN parts : b \in DOMAIN maps[x]][b]]]

\* the blank nodes that the private variables of predicates stand for
PrivateValues(predicates) ==
    UNION {{predicates[i].private[j][2] : j \in DOMAIN predicates[i].private} :
              i \in DOMAIN predicates}

\* build_vp: the draft of the presentation of the disclosed credentials,
\* canonicalized, and its relabelling.  order[k] is the credential whose
\* graph has the k-th canonical name.  A predicate is [circuit, private,
\* public], the variables as lists of << name, value >>; a blank node that
\* occurs in predicates only keeps its name.  The holder is named by the
\* pseudonym when there is one.
build_vp(disclosed_vcs, challenge, domain, blind_sign_request, ppid, encrypted_uid, predicates, order) ==
    LET vp_proof ==
            {<< VpProofId, TYPE, DATA_INTEGRITY_PROOF >>,
             << VpProofId, CRYPTOSUITE, CRYPTOSUITE_PROOF >>,
             << VpProofId, PROOF_PURPOSE, AUTHENTICATION >>,
             << VpProofId, CREATED, CreatedNow >>}
                \cup (IF challenge # None THEN {<< VpProofId, CHALLENGE, challenge >>} ELSE {})
                \cup (IF domain # None THEN {<< VpProofId, DOMAIN_IRI, domain >>} ELSE {})
                \cup (IF encrypted_uid # None
                      THEN {<< VpProofId, ENCRYPTED_UID, encrypted_uid >>} ELSE {})
        graphs == [k \in DOMAIN order |->
                      [document |-> disclosed_vcs[order[k]].document,
                       proof |-> get_proof_config(disclosed_vcs[order[k]])]]
        Built(of_graphs) ==
            [err |-> Ok,
             vp |-> [proof |-> vp_proof, proof_value |-> NoProofValue,
                     vcs |-> relabel(graphs, of_graphs),
                     holder |-> blind_sign_request.commitment,
                     holder_id |-> ppid.ppid,
                     predicates |->
                         [i \in DOMAIN predicates |->
                             [predicates[i] EXCEPT !.private =
                                 [j \in DOMAIN predicates[i].private |->
                                     << predicates[i].private[j][1],
                                        RelabelTerm(predicates[i].private[j][2],
                                                    of_graphs) >>]]]],
             bnode_map |->
                 of_graphs @@ [b \in PrivateValues(predicates) \ DOMAIN of_graphs |-> b]]
    IN  IF \E i \in DOMAIN disclosed_vcs :
               subject_for_predicate_object(disclosed_vcs[i].document, TYPE,
                                            VERIFIABLE_CREDENTIAL_TYPE) = None
        THEN [err |-> "VCWithoutVCType", vp |-> NoVP, bnode_map |-> << >>]
        ELSE Built(issue(graphs))

extend_deanon_map(deanon_map, vp_draft_bnode_map, original_vcs_bnode_map) ==
    LET res == [cnid \in Range(vp_draft_bnode_map) |->
                   LET bnid == CHOOSE b \in DOMAIN vp_draft_bnode_map :
                                   vp_draft_bnode_map[b] = cnid
                       mapped_bnid == IF bnid \in DOMAIN original_vcs_bnode_map
                                      THEN original_vcs_bnode_map[bnid]
                                      ELSE bnid
                   IN  IF mapped_bnid \in DOMAIN deanon_map
                       THEN deanon_map[mapped_bnid]
                       ELSE mapped_bnid]
        named == [k \in DOMAIN deanon_map \cap NamedNodes |-> deanon_map[k]]
    IN  named @@ res

\* reorder_vc_graphs: the originals, their proof values and bindings in the
\* order of the graphs of the presentation
reorder_vc_graphs(canonicalized_original_vcs, proof_values, canonicalized_disclosed_vc_graphs, order) ==
    [original_vc_vec |->
         [k \in DOMAIN order |->
             VerifiableCredentialTriples_from(canonicalized_original_vcs[order[k]])],
     disclosed_vc_vec |->
         [k \in DOMAIN order |->
             VerifiableCredentialTriples_from(canonicalized_disclosed_vc_graphs[k])],
     vc_proof_values_vec |-> [k \in DOMAIN order |-> proof_values[order[k]]],
     is_bound_vec |->
         [k \in DOMAIN order |-> is_bound(canonicalized_original_vcs[order[k]]) = "true"]]

\* the triple with its terms deanonymized
deanonymize_triple(deanon_map, triple) ==
    << deanonymize_subject(deanon_map, Subj(triple)),
       deanonymize_named_node(deanon_map, Pred(triple)),
       deanonymize_term(deanon_map, Obj(triple)) >>

\* Iterator::position, counted from 1; 0 when there is none
triple_position(triples, triple) ==
    IF \E j \in DOMAIN triples : triples[j] = triple
    THEN CHOOSE j \in DOMAIN triples :
             triples[j] = triple /\ \A x \in DOMAIN triples : triples[x] = triple => j <= x
    ELSE 0

\* StatementIndexMap::new for the disclosed triples found in the original
StatementIndexMap_new(disclosed, original) ==
    [document_map |-> [x \in DOMAIN disclosed.document |->
                          triple_position(original.document, disclosed.document[x]) - 1],
     document_len |-> Len(original.document),
     proof_map |-> [x \in DOMAIN disclosed.proof |->
                       triple_position(original.proof, disclosed.proof[x]) - 1],
     proof_len |-> Len(original.proof)]

\* a gen_index_map that does not look whether the disclosed triples are in
\* the original
gen_index_map_unchecked(original_vc_vec, disclosed_vc_vec, extended_deanon_map) ==
    [err |-> Ok,
     val |-> [i \in DOMAIN disclosed_vc_vec |->
                 StatementIndexMap_new(disclosed_vc_vec[i], original_vc_vec[i])]]

gen_index_map(original_vc_vec, disclosed_vc_vec, extended_deanon_map) ==
    LET disclosed_vc_triples_cloned ==
            [i \in DOMAIN disclosed_vc_vec |->
                [document |-> [x \in DOMAIN disclosed_vc_vec[i].document |->
                                  deanonymize_triple(extended_deanon_map,
                                                     disclosed_vc_vec[i].document[x])],
                 proof |-> [x \in DOMAIN disclosed_vc_vec[i].proof |->
                               deanonymize_triple(extended_deanon_map,
                                                  disclosed_vc_vec[i].proof[x])]]]
        all == UNION {Range(disclosed_vc_triples_cloned[i].document)
                          \cup Range(disclosed_vc_triples_cloned[i].proof) :
                      i \in DOMAIN disclosed_vc_triples_cloned}
        index_map == [i \in DOMAIN disclosed_vc_triples_cloned |->
                         StatementIndexMap_new(disclosed_vc_triples_cloned[i],
                                               original_vc_vec[i])]
    IN  IF \E t \in all : DeAnonymization \in Range(t)
        THEN [err |-> "DeAnonymization", val |-> << >>]
        ELSE IF \E i \in DOMAIN index_map :
                    -1 \in Range(index_map[i].document_map) \cup Range(index_map[i].proof_map)
        THEN [err |-> "DisclosedVCIsNotSubsetOfOriginalVC", val |-> << >>]
        ELSE [err |-> Ok, val |-> index_map]

\* Fr::from(1), the message at index 0 of a credential bound to no secret
FrOne == "Fr(1)"

\* terms that keep the predicate of a triple that is not disclosed
build_terms_with_predicates_disclosed(disclosed_triple, subject_index, vc_index, original) ==
    LET hidden == IF disclosed_triple = NoTriple THEN {0, 2}
                  ELSE {k \in {0, 2} : disclosed_triple[k + 1] \in BlankNodes}
        Fr(k) == << subject_index + k, hash_term_to_field(original[k + 1]) >>
    IN  [disclosed |-> {Fr(k) : k \in (0..2) \ hidden},
         undisclosed |-> {Fr(k) : k \in hidden},
         equivs |-> IF disclosed_triple = NoTriple THEN {}
                    ELSE {<< disclosed_triple[k + 1], << vc_index, subject_index + k >> >> :
                             k \in hidden}]

\* the terms of an original triple: disclosed where the disclosed triple
\* has an IRI or a literal, undisclosed where it has a blank node or where
\* the triple is not disclosed
build_disclosed_and_undisclosed_terms(disclosed_triple, subject_index, vc_index, original) ==
    LET hidden == IF disclosed_triple = NoTriple THEN 0..2
                  ELSE {k \in {0, 2} : disclosed_triple[k + 1] \in BlankNodes}
        Fr(k) == << subject_index + k, hash_term_to_field(original[k + 1]) >>
    IN  [disclosed |-> {Fr(k) : k \in (0..2) \ hidden},
         undisclosed |-> {Fr(k) : k \in hidden},
         equivs |-> IF disclosed_triple = NoTriple THEN {}
                    ELSE {<< disclosed_triple[k + 1], << vc_index, subject_index + k >> >> :
                             k \in hidden}]

get_disclosed_and_undisclosed_terms(disclosed_vc_triples, original_vc_triples, vc_index, secret) ==
    LET disclosed_document == disclosed_vc_triples.document
        disclosed_proof == disclosed_vc_triples.proof
        original_document == original_vc_triples.document
        original_proof == original_vc_triples.proof
        delimiter_index == 1 + 3 * Len(disclosed_document)
        document_terms ==
            [j \in DOMAIN disclosed_document |->
                build_disclosed_and_undisclosed_terms(
                    disclosed_document[j], 1 + 3 * (j - 1), vc_index, original_document[j])]
        proof_terms ==
            [j \in DOMAIN disclosed_proof |->
                build_disclosed_and_undisclosed_terms(
                    disclosed_proof[j], delimiter_index + 1 + 3 * (j - 1), vc_index,
                    original_proof[j])]
    IN  [disclosed |->
             (IF secret = None THEN {<< 0, FrOne >>} ELSE {})
                 \cup UNION {document_terms[j].disclosed : j \in DOMAIN document_terms}
                 \cup {<< delimiter_index, get_delimiter >>}
                 \cup UNION {proof_terms[j].disclosed : j \in DOMAIN proof_terms},
         undisclosed |->
             (IF secret = None THEN {} ELSE {<< 0, hash_byte_to_field(secret) >>})
                 \cup UNION {document_terms[j].undisclosed : j \in DOMAIN document_terms}
                 \cup UNION {proof_terms[j].undisclosed : j \in DOMAIN proof_terms},
         equivs |->
             UNION {document_terms[j].equivs : j \in DOMAIN document_terms}
                 \cup UNION {proof_terms[j].equivs : j \in DOMAIN proof_terms},
         term_count |-> delimiter_index + 1 + 3 * Len(disclosed_proof)]

\* get_encrypted_secret_and_pok: the verifiable encryption of the secret
\* under the key of the opener, with its statements and witnesses
get_encrypted_secret_and_pok(opener_pub_key, secret) ==
    LET Encrypted(hashed_secret) ==
            [cipher_text |-> ElGamalCiphertext(opener_pub_key, hashed_secret),
             statements |->
                 << [kind |-> "ElGamalEncryption", opener_pub_key |-> opener_pub_key,
                     cipher_text |-> ElGamalCiphertext(opener_pub_key, hashed_secret)] >>,
             witnesses |-> << << hashed_secret >> >>]
    IN  Encrypted(hash_byte_to_field(secret))

\* no verifiable encryption
NoEncryption == [cipher_text |-> None, statements |-> << >>, witnesses |-> << >>]

\* R1CSCircomProver::new_statement_from_params
R1CSCircomProver_new_statement_from_params(circuit) ==
    [kind |-> "R1CSCircomProver", circuit |-> circuit]

\* derive_proof_value, "statements for predicates": the first error of the
\* predicate graphs
predicate_error(predicate_graphs, circuits) ==
    FirstError([i \in DOMAIN predicate_graphs |->
                   IF predicate_graphs[i].circuit = None THEN "InvalidPredicate"
                   ELSE IF predicate_graphs[i].circuit \notin circuits
                   THEN "MissingPredicateCircuit"
                   ELSE IF predicate_graphs[i].private = << >>
                           \/ predicate_graphs[i].public = << >>
                   THEN "InvalidPredicate"
                   ELSE Ok])

\* derive_proof_value, "witness for predicates": the private inputs are the
\* hashes of what the extended deanonymization map has for the private
\* variables, the public inputs the hashes of the public values
predicate_witness(predicate, extended_deanon_map) ==
    [private |-> [j \in DOMAIN predicate.private |->
                     hash_term_to_field(extended_deanon_map[predicate.private[j][2]])],
     public |-> [j \in DOMAIN predicate.public |->
                    hash_term_to_field(predicate.public[j][2])]]

\* derive_proof_value, "add equality for predicate private variables": for
\* every hidden term of the credentials that a predicate has among its
\* private variables, the first position it has there
predicate_equivs(predicate_graphs, predicate_indexes, keys) ==
    UNION {{<< k, << predicate_indexes[i],
                     (CHOOSE j \in DOMAIN predicate_graphs[i].private :
                          /\ predicate_graphs[i].private[j][2] = k
                          /\ \A x \in 1..(j - 1) : predicate_graphs[i].private[x][2] # k) - 1 >> >> :
               k \in {x \in keys : \E j \in DOMAIN predicate_graphs[i].private :
                                       predicate_graphs[i].private[j][2] = x}} :
              i \in DOMAIN predicate_graphs}

\* derive_proof_value, "proof of equality for embedded secrets": the
\* positions of the secret in the statements of the bound credentials, of
\* the pseudonym and of the secret commitment.  An index that may be absent
\* is the set of at most one index.
secret_equiv_set_of_first_messages(is_bounds, ppid_index, secret_commitment_index) ==
    {<< i - 1, 0 >> : i \in {x \in DOMAIN is_bounds : is_bounds[x]}}
        \cup {<< idx, 0 >> : idx \in ppid_index \cup secret_commitment_index}

secret_equiv_set(is_bounds, ppid_index, secret_commitment_index) ==
    {<< i - 1, 0 >> : i \in {x \in DOMAIN is_bounds : is_bounds[x]}}
        \cup {<< idx, 0 >> : idx \in ppid_index}
        \cup {<< idx, 1 >> : idx \in secret_commitment_index}

\* witnesses with those of the secret commitment before those of the
\* verifiable encryption
witnesses_with_commitment_first(signatures, ppid, encryption, commitment, predicates) ==
    signatures \o ppid \o commitment \o encryption \o predicates

\* derive_proof_value, "build witnesses": the witnesses of the signatures,
\* of the pseudonym, of the verifiable encryption, of the secret commitment
\* and of the predicates, as they are added
witnesses_in_order(signatures, ppid, encryption, commitment, predicates) ==
    signatures \o ppid \o encryption \o commitment \o predicates

\* derive_proof_value, from the reordering of the disclosed triples to the
\* witnesses: the proof spec, the witnesses, and the indexes that were
\* recorded while the statements were added
proof_spec_and_witnesses(secret, original_vc_triples, is_bounds, disclosed_vc_triples, public_keys, proof_values, index_map, canonicalized_vp, challenge, blind_sign_request, ppid, predicate_graphs, circuits, extended_deanon_map, verifiable_encryption_for_uid, table) ==
    IF \E i \in DOMAIN is_bounds : is_bounds[i] /\ secret = None
    THEN [err |-> "MissingSecret"]
    ELSE IF predicate_error(predicate_graphs, circuits) # Ok
    THEN [err |-> predicate_error(predicate_graphs, circuits)]
    ELSE IF (blind_sign_request # NoBlindSignRequest \/ ppid # NoPPID) /\ secret = None
    THEN [err |-> "MissingSecret"]
    ELSE IF \E i \in DOMAIN predicate_graphs : \E j \in DOMAIN predicate_graphs[i].private :
                predicate_graphs[i].private[j][2] \notin DOMAIN extended_deanon_map
    THEN [err |-> "InvalidPredicate"]
    ELSE
    Let(reorder_vc_triples(disclosed_vc_triples, index_map),
        LAMBDA reordered_disclosed_vc_triples :
    Let([i \in DOMAIN reordered_disclosed_vc_triples |->
            get_disclosed_and_undisclosed_terms(
                reordered_disclosed_vc_triples[i], original_vc_triples[i], i - 1,
                IF is_bounds[i] THEN secret ELSE None)],
        LAMBDA disclosed_and_undisclosed_terms :
    Let(UNION {disclosed_and_undisclosed_terms[i].equivs :
                  i \in DOMAIN disclosed_and_undisclosed_terms},
        LAMBDA equivs :
    \* the statements: signatures, pseudonym, verifiable encryption,
    \* secret commitment, predicates
    Let([i \in DOMAIN disclosed_and_undisclosed_terms |->
            PoKBBSSignatureG1_new_statement_from_params(
                generate_params(disclosed_and_undisclosed_terms[i].term_count),
                public_keys[i], disclosed_and_undisclosed_terms[i].disclosed)]
            \o (IF ppid = NoPPID THEN << >>
                ELSE << PedersenCommitment_new_statement_from_params(
                            << ppid.base >>, ppid.ppid) >>),
        LAMBDA statements_to_ppid :
    Let(IF ppid = NoPPID THEN {} ELSE {Len(statements_to_ppid) - 1}, LAMBDA ppid_index :
    Let(statements_to_ppid
            \o verifiable_encryption_for_uid.statements
            \o (IF blind_sign_request = NoBlindSignRequest THEN << >>
                ELSE << PedersenCommitment_new_statement_from_params(
                            RequestBases, blind_sign_request.commitment) >>),
        LAMBDA statements :
    Let(IF blind_sign_request = NoBlindSignRequest THEN {} ELSE {Len(statements) - 1},
        LAMBDA secret_commitment_index :
    Let([i \in DOMAIN predicate_graphs |-> Len(statements) + i - 1],
        LAMBDA predicate_indexes :
    \* proof of equality for embedded secrets
    Let(secret_equiv_set(is_bounds, ppid_index, secret_commitment_index),
        LAMBDA secret_equivs :
    Let(ProofSpec_new(
            statements
                \o [i \in DOMAIN predicate_graphs |->
                       R1CSCircomProver_new_statement_from_params(predicate_graphs[i].circuit)],
            (IF Cardinality(secret_equivs) > 1 THEN {secret_equivs} ELSE {})
                \cup EqualWitnesses(
                         equivs \cup predicate_equivs(predicate_graphs, predicate_indexes,
                                                      {e[1] : e \in equivs})),
            generate_proof_spec_context(canonicalized_vp, index_map)),
        LAMBDA proof_spec :
    Let(witnesses_in_order(
            [i \in DOMAIN disclosed_and_undisclosed_terms |->
                PoKBBSSignatureG1_new_as_witness(
                    DecodeSignature(proof_values[i], table),
                    disclosed_and_undisclosed_terms[i].undisclosed)],
            IF ppid = NoPPID THEN << >> ELSE << << hash_byte_to_field(secret) >> >>,
            verifiable_encryption_for_uid.witnesses,
            IF blind_sign_request = NoBlindSignRequest THEN << >>
            ELSE << << blind_sign_request.blinding, hash_byte_to_field(secret) >> >>,
            [i \in DOMAIN predicate_graphs |->
                predicate_witness(predicate_graphs[i], extended_deanon_map)]),
        LAMBDA witnesses :
    [err |-> Ok, proof_spec |-> proof_spec, witnesses |-> witnesses,
     ppid_index |-> ppid_index, secret_commitment_index |-> secret_commitment_index,
     predicate_indexes |-> predicate_indexes])))))))))))

\* derive_proof_value
derive_proof_value(secret, original_vc_triples, is_bounds, disclosed_vc_triples, public_keys, proof_values, index_map, canonicalized_vp, challenge, blind_sign_request, ppid, predicate_graphs, circuits, extended_deanon_map, verifiable_encryption_for_uid, table) ==
    Let(proof_spec_and_witnesses(
            secret, original_vc_triples, is_bounds, disclosed_vc_triples, public_keys,
            proof_values, index_map, canonicalized_vp, challenge, blind_sign_request, ppid,
            predicate_graphs, circuits, extended_deanon_map, verifiable_encryption_for_uid,
            table),
        LAMBDA built :
    IF built.err # Ok THEN [err |-> built.err, val |-> NoProofValue]
    ELSE [err |-> Ok,
          val |-> [proof |-> Proof_new(built.proof_spec, built.witnesses, challenge),
                   index_map |-> index_map]])

\* derive_proof, from the randomization of the blank nodes to the
\* reordering of the graphs: the draft of the presentation, the extended
\* deanonymization map, and the originals, disclosed credentials, proof
\* values and bindings in the order of the graphs of the presentation
derive_proof_graphs(vc_pairs, deanon_map, challenge, domain, blind_sign_request, ppid, cipher_text, predicates, order) ==
    \* randomize blank node identifiers in VC documents and VC proofs
    Let([i \in DOMAIN vc_pairs |->
            randomize_bnodes_in_vc_pairs(vc_pairs[i].original.document,
                                         vc_pairs[i].disclosed.document, i, "d")],
        LAMBDA r_document :
    Let([i \in DOMAIN vc_pairs |->
            randomize_bnodes_in_vc_pairs(vc_pairs[i].original.proof,
                                         vc_pairs[i].disclosed.proof, i, "p")],
        LAMBDA r_proof :
    Let([i \in DOMAIN vc_pairs |-> [document |-> r_document[i][1], proof |-> r_proof[i][1]]],
        LAMBDA original_vcs :
    Let([i \in DOMAIN vc_pairs |-> [document |-> r_document[i][2], proof |-> r_proof[i][2]]],
        LAMBDA disclosed_vcs :
    \* build the presentation without its proof value
    Let(build_vp(disclosed_vcs, challenge, domain, blind_sign_request, ppid, cipher_text,
                 predicates, order),
        LAMBDA draft :
    IF draft.err # Ok THEN [err |-> draft.err]
    ELSE
    \* canonicalize the originals without their proof values
    Let(canonicalize_vcs([i \in DOMAIN original_vcs |->
                             [document |-> original_vcs[i].document,
                              proof |-> get_proof_config(original_vcs[i])]]),
        LAMBDA canonicalized :
    IF canonicalized.err # Ok THEN [err |-> canonicalized.err]
    ELSE
    \* reorder the originals as the graphs of the presentation are
    Let(reorder_vc_graphs(canonicalized.vcs,
                          [i \in DOMAIN original_vcs |-> get_proof_value(original_vcs[i])],
                          draft.vp.vcs, order),
        LAMBDA reordered :
    [err |-> Ok,
     vp_draft |-> draft.vp,
     extended_deanon_map |->
         extend_deanon_map(deanon_map, draft.bnode_map, canonicalized.bnode_map),
     original_vc_vec |-> reordered.original_vc_vec,
     disclosed_vc_vec |-> reordered.disclosed_vc_vec,
     vc_proof_values_vec |-> reordered.vc_proof_values_vec,
     is_bound_vec |-> reordered.is_bound_vec])))))))

\* the abort of the thread that a panic is
Panic == "panic"

\* derive_proof, "encrypt secret as usk", with the unwrap of its result
encrypt_secret(secret, opener_pub_key) ==
    IF secret # None /\ opener_pub_key # None
    THEN [err |-> Ok, val |-> get_encrypted_secret_and_pok(opener_pub_key, secret)]
    ELSE IF opener_pub_key = None THEN [err |-> Ok, val |-> NoEncryption]
    ELSE [err |-> Panic, val |-> NoEncryption]

\* derive_proof, for vc_pairs of [original, disclosed]; with_ppid is whether
\* a pseudonym is asked for (None is false)
derive_proof(vc_pairs, deanon_map, challenge, domain, secret, blind_sign_request, with_ppid, predicates, circuits, opener_pub_key, order, table) ==
    LET public_keys == [i \in DOMAIN vc_pairs |-> get_public_keys(vc_pairs[i].original.proof)]
        Err(e) == [err |-> e, vp |-> NoVP]
    IN  \* either VCs or a blind sign request must be provided as input
        IF vc_pairs = << >> /\ blind_sign_request = NoBlindSignRequest
        THEN Err("MissingInputToDeriveProof")
        ELSE
        \* get issuer public keys
        Let(FirstError([i \in DOMAIN public_keys |-> public_keys[i].err]), LAMBDA key_error :
        IF key_error # Ok THEN Err(key_error)
        ELSE
        \* verify VCs
        Let(FirstError([i \in DOMAIN vc_pairs |->
                           verify_original(vc_pairs[i].original, secret, table)]),
            LAMBDA verify_error :
        IF verify_error # Ok THEN Err(verify_error)
        ELSE
        \* get PPID
        Let(get_ppid(domain, secret, with_ppid), LAMBDA ppid :
        IF ppid.err # Ok THEN Err(ppid.err)
        ELSE
        \* encrypt secret as usk
        Let(encrypt_secret(secret, opener_pub_key), LAMBDA verifiable_encryption_for_uid :
        IF verifiable_encryption_for_uid.err # Ok THEN Err(verifiable_encryption_for_uid.err)
        ELSE
        \* randomize, build the presentation draft, canonicalize, reorder
        Let(derive_proof_graphs(vc_pairs, deanon_map, challenge, domain, blind_sign_request,
                                ppid.val, verifiable_encryption_for_uid.val.cipher_text,
                                predicates, order),
            LAMBDA graphs :
        IF graphs.err # Ok THEN Err(graphs.err)
        ELSE
        \* generate the index map
        Let(gen_index_map(graphs.original_vc_vec, graphs.disclosed_vc_vec,
                          graphs.extended_deanon_map), LAMBDA index_map :
        IF index_map.err # Ok THEN Err(index_map.err)
        ELSE
        \* derive the proof value
        Let(derive_proof_value(
                secret, graphs.original_vc_vec, graphs.is_bound_vec,
                graphs.disclosed_vc_vec,
                [i \in DOMAIN public_keys |-> public_keys[i].val],
                graphs.vc_proof_values_vec, index_map.val,
                [proof |-> graphs.vp_draft.proof, vcs |-> graphs.vp_draft.vcs,
                 holder |-> graphs.vp_draft.holder,
                 holder_id |-> graphs.vp_draft.holder_id,
                 predicates |-> graphs.vp_draft.predicates],
                challenge, blind_sign_request, ppid.val, graphs.vp_draft.predicates,
                circuits,
                graphs.extended_deanon_map, verifiable_encryption_for_uid.val, table),
            LAMBDA derived_proof_value :
        IF derived_proof_value.err # Ok THEN Err(derived_proof_value.err)
        ELSE [err |-> Ok,
              vp |-> [graphs.vp_draft EXCEPT !.proof_value = derived_proof_value.val]])))))))

\* ---------------------------------------------------------------- fixtures

Vcred == "ex:vcred00"
John == "did:example:john"

\* the documents of the credentials
Documents ==
    { { << Vcred, TYPE, VERIFIABLE_CREDENTIAL_TYPE >>,
        << Vcred, "cred:credentialSubject", John >>,
        << John, "schema:name", "John Smith" >> },
      { << Vcred, TYPE, VERIFIABLE_CREDENTIAL_TYPE >>,
        << Vcred, "cred:credentialSubject", John >>,
        << John, "ex:isPatientOf", "_:b0" >> },
      { << Vcred, TYPE, VERIFIABLE_CREDENTIAL_TYPE >>,
        << Vcred, "cred:credentialSubject", "_:b0" >>,
        << "_:b0", "ex:isPatientOf", "_:b1" >> },
      { << Vcred, TYPE, VERIFIABLE_CREDENTIAL_TYPE >>,
        << Vcred, "cred:credentialSubject", "_:b0" >>,
        << "_:b0", "ex:isPatientOf", "_:p0" >> } }

\* a proof configuration
ProofOptions(cryptosuite, created, vm) ==
    { << "_:p0", TYPE, DATA_INTEGRITY_PROOF >>,
      << "_:p0", CRYPTOSUITE, cryptosuite >>,
      << "_:p0", CREATED, created >>,
      << "_:p0", PROOF_PURPOSE, ASSERTION_METHOD >>,
      << "_:p0", VERIFICATION_METHOD, vm >> }

GoodCreated == "2023-02-09T09:35:07Z"

\* the proof configurations of the credentials: the well-formed ones of the
\* two issuers, and the ill-formed ones
Proofs ==
    { ProofOptions(CRYPTOSUITE_SIGN, GoodCreated, Issuer0),
      ProofOptions(CRYPTOSUITE_SIGN, GoodCreated, Issuer1),
      ProofOptions(CRYPTOSUITE_BOUND_SIGN, GoodCreated, Issuer0),
      ProofOptions(CRYPTOSUITE_SIGN, "not-a-date", Issuer0),
      ProofOptions(CRYPTOSUITE_SIGN, "2023-02-09T09:35:07Z (simple)", Issuer0),
      ProofOptions(CRYPTOSUITE_SIGN, GoodCreated, "abcde"),
      ProofOptions(CRYPTOSUITE_SIGN, GoodCreated, Issuer0)
          \ {<< "_:p0", TYPE, DATA_INTEGRITY_PROOF >>},
      ProofOptions(CRYPTOSUITE_SIGN, GoodCreated, Issuer0)
          \ {<< "_:p0", CRYPTOSUITE, CRYPTOSUITE_SIGN >>},
      ProofOptions(CRYPTOSUITE, GoodCreated, Issuer0),
      ProofOptions(CRYPTOSUITE_SIGN, GoodCreated, Issuer0)
          \ {<< "_:p0", CREATED, GoodCreated >>},
      ProofOptions(CRYPTOSUITE_SIGN, John, Issuer0),
      ProofOptions(CRYPTOSUITE_SIGN, GoodCreated, Issuer0)
          \ {<< "_:p0", VERIFICATION_METHOD, Issuer0 >>},
      ProofOptions(CRYPTOSUITE_SIGN, "not-a-date", "abcde"),
      ProofOptions(CRYPTOSUITE_BOUND_SIGN, "not-a-date", "abcde") }

\* the proof configurations that blind issuance is asked for
BlindProofs ==
    { ProofOptions(CRYPTOSUITE_BOUND_SIGN, GoodCreated, Issuer0),
      ProofOptions(CRYPTOSUITE_SIGN, GoodCreated, Issuer0),
      ProofOptions(CRYPTOSUITE_SIGN, GoodCreated, Issuer0)
          \ {<< "_:p0", CRYPTOSUITE, CRYPTOSUITE_SIGN >>},
      ProofOptions(CRYPTOSUITE_BOUND_SIGN, "not-a-date", Issuer1) }

\* the holder secrets, the nonces and the blindings that the rng yields
Secrets == {"SECRET", "SECRET2"}
Nonces == {None, "NONCE", "NONCE2"}
Blindings == {"r1", "r2"}

\* no request
NoRequest ==
    [request |-> [commitment |-> commit_to_messages(<< >>, << >>, None),
                  proof |-> Proof_new(ProofSpec_new(<< >>, {}, None), << >>, None)],
     blinding |-> None, secret |-> None, nonce |-> None]

\* the terms a mutation of the document puts at a position of a triple
MutationTerms(position) ==
    IF position = 1 THEN {"_:b0", "_:b1"}
    ELSE IF position = 2 THEN {"schema:name"}
    ELSE {"**********", "_:b0", "_:b1"}

\* the documents of the credentials that the holder presents
PersonDocument ==
    { << Vcred, TYPE, VERIFIABLE_CREDENTIAL_TYPE >>,
      << Vcred, "cred:credentialSubject", John >>,
      << John, "schema:name", "John Smith" >> }

PatientDocument ==
    { << Vcred, TYPE, VERIFIABLE_CREDENTIAL_TYPE >>,
      << Vcred, "cred:credentialSubject", John >>,
      << John, "ex:isPatientOf", "_:b0" >> }

BirthDocument ==
    { << Vcred, TYPE, VERIFIABLE_CREDENTIAL_TYPE >>,
      << Vcred, "cred:credentialSubject", John >>,
      << John, "schema:birthDate", "2022-01-01T00:00:00Z" >> }

\* the k-th signature made: a credential of the plain cryptosuite, signed
IssuedPlain(document, vm, k) ==
    sign([document |-> document,
          proof |-> ProofOptions(CRYPTOSUITE_SIGN, GoodCreated, vm)], k)

\* the k-th signature made: a credential of the bound cryptosuite, blind
\* signed over the commitment to the secret and unblinded by the holder
IssuedBound(document, vm, secret, k) ==
    LET unsecured_credential ==
            [document |-> document,
             proof |-> ProofOptions(CRYPTOSUITE_BOUND_SIGN, GoodCreated, vm)]
        commitment ==
            commit_to_messages(RequestBases, << hash_byte_to_field(secret) >>, "r1")
        hash_data ==
            hash(transform(document, unsecured_credential.proof),
                 configure_proof_core(unsecured_credential.proof, CRYPTOSUITE_BOUND_SIGN).val)
        blinded == serialize_proof_with_comitted_messages(
                       commitment, hash_data, unsecured_credential.proof)
    IN  [err |-> Ok,
         vc |-> add_proof_value(unsecured_credential, SigLiteral(k)),
         sig |-> [blinded.sig EXCEPT !.blinding = None]]

\* the credentials of the holder
Cred1 == IssuedPlain(PersonDocument, Issuer0, 1)
Cred2 == IssuedPlain(PatientDocument, Issuer1, 2)
Cred3 == IssuedBound(PersonDocument, Issuer0, "SECRET", 3)
Cred4 == IssuedBound(PatientDocument, Issuer1, "SECRET2", 4)
Cred5 == IssuedPlain(BirthDocument, Issuer0, 5)

\* the first credential with the cryptosuite of its proof replaced by one
\* that is neither the plain nor the bound one
CredOfOtherSuite ==
    [vc |-> [Cred1.vc EXCEPT
                !.proof = {IF Pred(t) = CRYPTOSUITE THEN << Subj(t), Pred(t), "xyz" >> ELSE t :
                               t \in @}],
     sig |-> Cred1.sig]

\* the signatures behind their proof values
IssuedSignatures == << Cred1.sig, Cred2.sig, Cred3.sig, Cred4.sig, Cred5.sig >>

\* the deanonymization map of the holder
DeanonMap ==
    ("_:e0" :> Vcred) @@ ("_:e1" :> John) @@ ("_:e2" :> "John Smith")
        @@ ("_:e3" :> "2022-01-01T00:00:00Z") @@ ("_:e4" :> "John Smith")

\* a credential of the holder with what the holder discloses of its document
Pair(cred, disclosed_document) ==
    [original |-> cred.vc,
     disclosed |-> [document |-> disclosed_document, proof |-> get_proof_config(cred.vc)]]

VcType == << Vcred, TYPE, VERIFIABLE_CREDENTIAL_TYPE >>

\* the lists of pairs that the holder derives a presentation from: whole
\* documents, documents with placeholders for hidden terms, and disclosures
\* that are ill formed
VcPairLists ==
    { << Pair(Cred1, PersonDocument) >>,
      << Pair(Cred1, { << "_:e0", TYPE, VERIFIABLE_CREDENTIAL_TYPE >>,
                       << "_:e0", "cred:credentialSubject", "_:e1" >> }) >>,
      << Pair(Cred1, { VcType, << John, "schema:name", "_:e2" >> }) >>,
      << Pair(Cred1, { VcType, << John, "schema:name", "xyz" >> }) >>,
      << Pair(Cred1, { << John, "schema:name", "John Smith" >> }) >>,
      << Pair(Cred1, { VcType, << "_:e2", "schema:name", "John Smith" >> }) >>,
      << Pair(Cred2, PatientDocument) >>,
      << Pair(Cred1, { VcType, << Vcred, "cred:credentialSubject", "_:e1" >> }),
         Pair(Cred2, { VcType, << "_:e1", "ex:isPatientOf", "_:b0" >> }) >>,
      << Pair(Cred3, PersonDocument) >>,
      << Pair(Cred3, PersonDocument), Pair(Cred4, { VcType }) >>,
      << Pair(Cred3, { VcType }), Pair(Cred2, { VcType }) >>,
      << Pair(Cred5, { VcType, << John, "schema:birthDate", "_:e3" >> }) >>,
      << Pair(Cred1, { VcType, << John, "schema:name", "_:e2" >>,
                       << John, "schema:name", "_:e4" >> }) >>,
      << [original |-> Cred1.vc,
          disclosed |-> [document |-> PersonDocument, proof |-> Cred1.vc.proof]] >>,
      << Pair(Cred3, { VcType }), Pair(CredOfOtherSuite, { VcType }) >>,
      << >> }

\* the blind sign request of the holder for a secret, as request_blind_sign
\* makes it
BlindSignRequest(secret, blinding) ==
    [commitment |-> blind_sig_request(blinding, secret, None).request.commitment,
     blinding |-> blinding]

\* the key of the opener
OpenerPubKey == "opener"

\* the circuits that the verifier has set up
Circuits == {LessThanPrvPub, LessThanEqPrvPub}

\* the predicate of a circuit on the hidden date of birth and a public date
Predicate(circuit, greater) ==
    [circuit |-> circuit,
     private |-> << << "lesser", "_:e3" >> >>,
     public |-> << << "greater", greater >> >>]

\* what the holder derives a presentation with, besides the credentials:
\* a blind sign request, a pseudonym, predicates, the key of an opener
DeriveOptions ==
    { [blind_sign_request |-> r, with_ppid |-> n, predicates |-> << >>,
       opener_pub_key |-> k] :
          r \in {NoBlindSignRequest, BlindSignRequest("SECRET", "r1")}, n \in BOOLEAN,
          k \in {None, OpenerPubKey} }
    \cup
    { [blind_sign_request |-> NoBlindSignRequest, with_ppid |-> FALSE,
       predicates |-> << Predicate(c, g) >>, opener_pub_key |-> None] :
          c \in Circuits,
          g \in {"1800-01-01T00:00:00Z", "2022-01-01T00:00:00Z", "2022-12-31T00:00:00Z"} }
    \cup
    { [blind_sign_request |-> NoBlindSignRequest, with_ppid |-> FALSE,
       predicates |-> << Predicate("circuit:unknown", "2022-12-31T00:00:00Z") >>,
       opener_pub_key |-> None] }

\* the challenges and domains of the holder, the nonces and domains of the
\* verifier
Challenges == {None, "abcde"}
Domains == {None, "example.org"}
VerifierNonces == {None, "abcde", "xyz"}
VerifierDomains == {None, "example.org", "xyz"}

\* the orders that the canonical names of n credential graphs can have
Orders(n) == {o \in [1..n -> 1..n] : \A a, b \in 1..n : o[a] = o[b] => a = b}

\* no derivation
NoDerivation ==
    [res |-> None, vp |-> NoVP, challenge |-> None, domain |-> None,
     secret |-> None, blind_sign_request |-> NoBlindSignRequest, with_ppid |-> FALSE,
     predicates |-> << >>, opener_pub_key |-> None, order |-> << >>, vc_pairs |-> << >>]

\* ------------------------------------------------- signing and verifying

VARIABLES
    vc,        \* the credential: [document, proof]
    sigs,      \* the signatures made so far; the k-th has the text SigLiteral(k)
    last,      \* the operation done last, its result and its argument
    signed,    \* the credential as the last successful sign left it
    tampered,  \* the number of mutations so far
    req,       \* the holder's blind signature request, its blinding, secret and nonce
    stage,     \* how far the blind issuance for req has got
    vc_pairs,  \* the pairs of original and disclosed credential of the holder
    derived    \* the derivation of a presentation: its inputs and its result

signVars == << vc, sigs, last, signed, tampered >>
blindVars == << req, stage >>
vpVars == << vc_pairs, derived >>
vars == << signVars, blindVars, vpVars >>

Init ==
    /\ vc \in [document : Documents, proof : Proofs]
    /\ sigs = << >>
    /\ last = [op |-> "init", res |-> Ok, arg |-> None]
    /\ signed = [ok |-> FALSE, unsecured |-> FALSE, vc |-> vc]
    /\ tampered = 0
    /\ req = NoRequest
    /\ stage = "none"
    /\ vc_pairs = << >>
    /\ derived = NoDerivation

\* sign(rng, &mut vc, loader)
Sign ==
    /\ Len(sigs) < MaxSigs
    /\ \E r \in {sign(vc, Len(sigs) + 1)} :
           /\ vc' = r.vc
           /\ sigs' = IF r.err = Ok THEN Append(sigs, r.sig) ELSE sigs
           /\ last' = [op |-> "sign", res |-> r.err, arg |-> None]
           /\ signed' = IF r.err = Ok
                        THEN [ok |-> TRUE,
                              unsecured |-> triples_for_predicate(vc.proof, PROOF_VALUE) = {},
                              vc |-> r.vc]
                        ELSE signed
    /\ UNCHANGED << tampered, blindVars, vpVars >>

\* verify(&vc, loader)
Verify ==
    /\ \E t \in IF triples_for_predicate(vc.proof, PROOF_VALUE) = {}
                THEN {NoTriple}
                ELSE triples_for_predicate(vc.proof, PROOF_VALUE) :
           last' = [op |-> "verify", res |-> verify(vc, t, sigs), arg |-> None]
    /\ UNCHANGED << vc, sigs, signed, tampered, blindVars, vpVars >>

\* someone replaces one term of one triple of the document
Tamper ==
    /\ tampered < MaxTamper
    /\ \E t \in vc.document, position \in 1..3 :
         \E x \in MutationTerms(position) :
           /\ x # t[position]
           /\ vc' = [vc EXCEPT !.document = (@ \ {t}) \cup {[t EXCEPT ![position] = x]}]
    /\ tampered' = tampered + 1
    /\ last' = [op |-> "tamper", res |-> Ok, arg |-> None]
    /\ UNCHANGED << sigs, signed, blindVars, vpVars >>

\* someone replaces the verification method of the proof configuration by
\* the IRI of the other issuer, as in tests::verify_failed_invalid_pk
ReplaceVerificationMethod ==
    /\ tampered < MaxTamper
    /\ \E t \in triples_for_predicate(vc.proof, VERIFICATION_METHOD) :
         \E x \in {Issuer0, Issuer1} :
           /\ x # Obj(t)
           /\ vc' = [vc EXCEPT !.proof = (@ \ {t}) \cup {<< Subj(t), Pred(t), x >>}]
    /\ tampered' = tampered + 1
    /\ last' = [op |-> "replace", res |-> Ok, arg |-> None]
    /\ UNCHANGED << sigs, signed, blindVars, vpVars >>

Next == Sign \/ Verify \/ Tamper \/ ReplaceVerificationMethod

Spec == Init /\ [][Next]_vars

\* --------------------------------------------------------- blind issuance

InitBlind ==
    /\ vc \in [document : Documents, proof : BlindProofs]
    /\ sigs = << >>
    /\ last = [op |-> "init", res |-> Ok, arg |-> None]
    /\ signed = [ok |-> FALSE, unsecured |-> FALSE, vc |-> vc]
    /\ tampered = 0
    /\ req = NoRequest
    /\ stage = "none"
    /\ vc_pairs = << >>
    /\ derived = NoDerivation

ProofValueTriples ==
    IF triples_for_predicate(vc.proof, PROOF_VALUE) = {}
    THEN {NoTriple}
    ELSE triples_for_predicate(vc.proof, PROOF_VALUE)

\* the holder: blind_sig_request(rng, secret, nonce)
BlindSigRequest ==
    /\ stage = "none"
    /\ \E secret \in Secrets, nonce \in Nonces, blinding \in Blindings :
         /\ req' = [request |-> blind_sig_request(blinding, secret, nonce).request,
                    blinding |-> blinding, secret |-> secret, nonce |-> nonce]
         /\ last' = [op |-> "blind_sig_request", res |-> Ok, arg |-> nonce]
    /\ stage' = "requested"
    /\ UNCHANGED << vc, sigs, signed, tampered, vpVars >>

\* the issuer: verify_blind_sig_request(rng, commitment, proof, nonce)
VerifyBlindSigRequest ==
    /\ stage # "none"
    /\ \E nonce \in Nonces :
         last' = [op |-> "verify_blind_sig_request",
                  res |-> verify_blind_sig_request(req.request.commitment,
                                                   req.request.proof, nonce),
                  arg |-> nonce]
    /\ UNCHANGED << vc, sigs, signed, tampered, blindVars, vpVars >>

\* the issuer: blind_sign(rng, request, nonce, &mut vc, key_graph)
BlindSign ==
    /\ stage # "none"
    /\ Len(sigs) < MaxSigs
    /\ \E nonce \in Nonces :
         \E r \in {blind_sign(req.request, nonce, vc, Len(sigs) + 1)},
            unsecured \in {triples_for_predicate(vc.proof, PROOF_VALUE) = {}} :
             /\ vc' = r.vc
             /\ sigs' = IF r.err = Ok THEN Append(sigs, r.sig) ELSE sigs
             /\ last' = [op |-> "blind_sign", res |-> r.err, arg |-> nonce]
             /\ signed' = IF r.err = Ok
                          THEN [ok |-> TRUE, unsecured |-> unsecured, vc |-> r.vc]
                          ELSE signed
             /\ stage' = IF r.err # Ok THEN stage
                         ELSE IF stage = "requested" /\ unsecured THEN "signed"
                         ELSE "broken"
    /\ UNCHANGED << tampered, req, vpVars >>

\* the holder: unblind(&mut vc, blinding)
Unblind ==
    /\ Len(sigs) < MaxSigs
    /\ \E blinding \in Blindings, t \in ProofValueTriples :
         \E r \in {unblind(vc, t, blinding, sigs, Len(sigs) + 1)} :
             /\ vc' = r.vc
             /\ sigs' = IF r.err = Ok THEN Append(sigs, r.sig) ELSE sigs
             /\ last' = [op |-> "unblind", res |-> r.err, arg |-> blinding]
             /\ stage' = IF r.err # Ok THEN stage
                         ELSE IF stage = "signed" /\ blinding = req.blinding THEN "unblinded"
                         ELSE "broken"
    /\ UNCHANGED << signed, tampered, req, vpVars >>

\* the holder: blind_verify(secret, &vc, key_graph)
BlindVerify ==
    /\ \E secret \in Secrets, t \in ProofValueTriples :
         last' = [op |-> "blind_verify",
                  res |-> blind_verify(secret, vc, t, sigs),
                  arg |-> secret]
    /\ UNCHANGED << vc, sigs, signed, tampered, blindVars, vpVars >>

NextBlind ==
    BlindSigRequest \/ VerifyBlindSigRequest \/ BlindSign \/ Unblind \/ BlindVerify

SpecBlind == InitBlind /\ [][NextBlind]_vars

\* ------------------------------------------------------------ presenting

InitVP ==
    /\ vc_pairs \in VcPairLists
    /\ derived = NoDerivation
    /\ sigs = IssuedSignatures
    /\ last = [op |-> "init", res |-> Ok, arg |-> [nonce |-> None, domain |-> None]]
    /\ tampered = 0
    /\ vc = Cred1.vc
    /\ signed = [ok |-> FALSE, unsecured |-> FALSE, vc |-> vc]
    /\ req = NoRequest
    /\ stage = "none"

\* someone replaces the object of a triple of the document of an original
\* credential, before the holder derives
TamperOriginal ==
    /\ tampered < MaxTamper
    /\ derived = NoDerivation
    /\ \E i \in DOMAIN vc_pairs :
         \E t \in vc_pairs[i].original.document, x \in MutationTerms(3) :
           /\ x # Obj(t)
           /\ vc_pairs' = [vc_pairs EXCEPT
                              ![i].original.document = (@ \ {t}) \cup {[t EXCEPT ![3] = x]}]
    /\ tampered' = tampered + 1
    /\ last' = [op |-> "tamper", res |-> Ok, arg |-> [nonce |-> None, domain |-> None]]
    /\ UNCHANGED << vc, sigs, signed, blindVars, derived >>

\* the holder: derive_proof(rng, &vc_pairs, &deanon_map, key_graph,
\* challenge, domain, secret, blind_sign_request, with_ppid, predicates,
\* circuits, opener_pub_key).  The order of the canonical names of the
\* credential graphs is left to the hashes of the canonicalizer.
DeriveProof ==
    /\ derived = NoDerivation
    /\ \E challenge \in Challenges, domain \in Domains, secret \in {None} \cup Secrets,
          with \in DeriveOptions, order \in Orders(Len(vc_pairs)) :
         \E r \in {derive_proof(vc_pairs, DeanonMap, challenge, domain, secret,
                                with.blind_sign_request, with.with_ppid, with.predicates,
                                Circuits, with.opener_pub_key, order, sigs)} :
             /\ derived' = [res |-> r.err, vp |-> r.vp, challenge |-> challenge,
                            domain |-> domain, secret |-> secret,
                            blind_sign_request |-> with.blind_sign_request,
                            with_ppid |-> with.with_ppid,
                            predicates |-> with.predicates,
                            opener_pub_key |-> with.opener_pub_key,
                            order |-> order, vc_pairs |-> vc_pairs]
             /\ last' = [op |-> "derive_proof", res |-> r.err,
                         arg |-> [nonce |-> challenge, domain |-> domain]]
    /\ UNCHANGED << vc, sigs, signed, tampered, blindVars, vc_pairs >>

\* the verifier: verify_proof(rng, &vp, nonce, key_graph).  The domain
\* that the verifier expects has no parameter in verify_proof.
VerifyProof ==
    /\ derived.res = Ok
    /\ \E nonce \in VerifierNonces, domain \in VerifierDomains :
         last' = [op |-> "verify_proof", res |-> verify_proof(derived.vp, nonce),
                  arg |-> [nonce |-> nonce, domain |-> domain]]
    /\ UNCHANGED << vc, sigs, signed, tampered, blindVars, vpVars >>

NextVP == TamperOriginal \/ DeriveProof \/ VerifyProof

SpecVP == InitVP /\ [][NextVP]_vars

\* ------------------------------------------------------- claims C1 and C2

InvalidSignature == "BBSPlus(InvalidSignature)"

\* verify has just run on the credential exactly as sign left it
VerifiedAsSigned ==
    /\ last.op = "verify"
    /\ signed.ok
    /\ vc = signed.vc

\* verify has just run on a signed credential whose proof graph is as sign
\* left it and whose document has been mutated since
VerifiedAfterMutation ==
    /\ last.op = "verify"
    /\ signed.ok
    /\ vc.proof = signed.vc.proof
    /\ vc.document # signed.vc.document

\* the mutation changed the document up to the names of its blank nodes
MutationChangedCanonicalForm ==
    canonicalize_into_terms(vc.document) # canonicalize_into_terms(signed.vc.document)

\* C1 as stated: once sign returns Ok on a credential that meets the
\* pre-conditions of sign, verify on the credential that sign leaves
\* returns Ok.
C1_AnySignedVerifies ==
    VerifiedAsSigned => last.res = Ok

\* C1 amended: once sign returns Ok on an unsecured credential (one that
\* meets the pre-conditions of sign and carries no proof value yet), verify
\* on the credential that sign leaves returns Ok.
C1_SignVerifyRoundTrip ==
    (VerifiedAsSigned /\ signed.unsecured) => last.res = Ok

C1_Witness ==
    /\ VerifiedAsSigned
    /\ signed.unsecured
    /\ last.res = Ok
    /\ BlankNodesOf(vc.document) # {}

\* C2 as stated: after a credential has been signed, any mutation of a
\* triple of its document (proof graph untouched) makes verify return
\* Err(BBSPlus(InvalidSignature)).
C2_AnyMutationDetected ==
    VerifiedAfterMutation => last.res = InvalidSignature

\* C2 amended: after an unsecured credential has been signed, a mutation of
\* its document that changes its canonical form, that is, anything but a
\* renaming of its blank nodes, makes verify return
\* Err(BBSPlus(InvalidSignature)).
C2_CanonicalMutationDetected ==
    (VerifiedAfterMutation /\ signed.unsecured /\ MutationChangedCanonicalForm)
        => last.res = InvalidSignature

C2_Witness ==
    /\ VerifiedAfterMutation
    /\ MutationChangedCanonicalForm
    /\ last.res = InvalidSignature
    /\ signed.unsecured

\* --------------------------------------------------------------- claim C10

\* an unsecured credential that blind issuance takes: its proof
\* configuration is well formed, of the bound cryptosuite, with an IRI as
\* verification method
EligibleForBlindIssuance(credential) ==
    /\ triples_for_predicate(credential.proof, PROOF_VALUE) = {}
    /\ configure_proof_core(credential.proof, CRYPTOSUITE_BOUND_SIGN).err = Ok
    /\ get_verification_method_identifier(credential.proof).err = Ok

\* the issuer accepts a request under the nonce it was made with
RequestAcceptedUnderSameNonce ==
    (last.op = "verify_blind_sig_request" /\ last.arg = req.nonce) => last.res = Ok

\* C10: a blind-sign request made for a secret with a nonce is accepted by
\* the issuer under the same nonce; blind_sign with the request and that
\* nonce issues the credential; and the credential that blind_sign issued,
\* unblinded with the blinding of the request, passes blind_verify with the
\* same secret.
C10_BlindIssuanceRoundTrip ==
    /\ RequestAcceptedUnderSameNonce
    /\ (last.op = "blind_sign" /\ last.arg = req.nonce /\ stage = "requested"
            /\ EligibleForBlindIssuance(vc))
           => last.res = Ok
    /\ (last.op = "blind_verify" /\ last.arg = req.secret /\ stage = "unblinded")
           => last.res = Ok

\* ------------------------------------------------- claims C3, C4, C5, C6

\* the challenge in the proof graph of the presentation derived
ChallengeInVP ==
    object_for_subject_predicate(derived.vp.proof, VpProofId, CHALLENGE)

\* the domain in the proof graph of the presentation derived
DomainInVP ==
    object_for_subject_predicate(derived.vp.proof, VpProofId, DOMAIN_IRI)

ChallengeErrors == {"MissingChallengeInRequest", "MissingChallengeInVP", "MismatchedChallenge"}
DomainErrors == {"MissingDomainInRequest", "MissingDomainInVP", "MismatchedDomain"}

\* verify_proof has just run on the presentation that derive_proof returned
VerifiedDerived == last.op = "verify_proof" /\ derived.res = Ok

\* C3: every presentation that derive_proof returned Ok with challenge c
\* and domain d (each possibly absent) is accepted by verify_proof called
\* with the same key graph and the same (c, d).
C3_DeriveVerifyRoundTrip ==
    (VerifiedDerived /\ last.arg.nonce = derived.challenge
         /\ last.arg.domain = derived.domain)
        => last.res = Ok

\* C4: in verify_proof, (nonce absent, challenge in the presentation)
\* returns MissingChallengeInRequest; (nonce supplied, no challenge in the
\* presentation) returns MissingChallengeInVP; both present but different
\* returns MismatchedChallenge; both absent or both equal passes the check.
C4_ChallengeCoherence ==
    VerifiedDerived =>
        /\ (last.arg.nonce = None /\ ChallengeInVP # None)
               => last.res = "MissingChallengeInRequest"
        /\ (last.arg.nonce # None /\ ChallengeInVP = None)
               => last.res = "MissingChallengeInVP"
        /\ (last.arg.nonce # None /\ ChallengeInVP # None /\ last.arg.nonce # ChallengeInVP)
               => last.res = "MismatchedChallenge"
        /\ last.arg.nonce = ChallengeInVP => last.res \notin ChallengeErrors

C4_Witness ==
    /\ VerifiedDerived
    /\ last.arg.nonce = "xyz"
    /\ ChallengeInVP = "abcde"
    /\ derived.challenge = "abcde"
    /\ last.res = "MismatchedChallenge"

\* C5: a presentation derived with a domain and verified without one
\* returns MissingDomainInRequest; one derived without a domain and
\* verified with one returns MissingDomainInVP; a domain different from the
\* one in the presentation is rejected; equal or both-absent domains pass.
\* Stated for the verifications whose challenge is coherent.
C5_DomainCoherence ==
    (VerifiedDerived /\ last.arg.nonce = ChallengeInVP) =>
        /\ (last.arg.domain = None /\ DomainInVP # None)
               => last.res = "MissingDomainInRequest"
        /\ (last.arg.domain # None /\ DomainInVP = None)
               => last.res = "MissingDomainInVP"
        /\ (last.arg.domain # None /\ DomainInVP # None /\ last.arg.domain # DomainInVP)
               => last.res \in DomainErrors
        /\ last.arg.domain = DomainInVP => last.res \notin DomainErrors

\* C6: when both the challenge and the domain are incoherent the challenge
\* error is the one returned: derived with (c, d) and verified with
\* (None, None) returns MissingChallengeInRequest; derived with (None, d)
\* and verified with (c, None), or derived with (None, None) and verified
\* with (c, d), returns MissingChallengeInVP; and a domain error is
\* returned only when the challenge check passes.
C6_ChallengeErrorFirst ==
    VerifiedDerived =>
        /\ (derived.challenge # None /\ derived.domain # None
               /\ last.arg.nonce = None /\ last.arg.domain = None)
               => last.res = "MissingChallengeInRequest"
        /\ (derived.challenge = None /\ derived.domain # None
               /\ last.arg.nonce # None /\ last.arg.domain = None)
               => last.res = "MissingChallengeInVP"
        /\ (derived.challenge = None /\ derived.domain = None
               /\ last.arg.nonce # None /\ last.arg.domain # None)
               => last.res = "MissingChallengeInVP"
        /\ last.res \in DomainErrors => nonce_check(last.arg.nonce, derived.vp.proof) = Ok

C6_Witness ==
    /\ VerifiedDerived
    /\ derived.challenge # None /\ derived.domain # None
    /\ DomainInVP = derived.domain
    /\ last.arg.nonce = None /\ last.arg.domain = None
    /\ last.res = "MissingChallengeInRequest"

\* ------------------------------------------------------ claims C7, C8, C9

\* derive_proof has just run
Derived == last.op = "derive_proof"

\* the graphs that the derivation gave to gen_index_map
DerivedGraphs ==
    derive_proof_graphs(derived.vc_pairs, DeanonMap, derived.challenge, derived.domain,
                        derived.blind_sign_request,
                        get_ppid(derived.domain, derived.secret, derived.with_ppid).val,
                        encrypt_secret(derived.secret, derived.opener_pub_key).val.cipher_text,
                        derived.predicates,
                        derived.order)

\* the k-th disclosed credential of the graphs, deanonymized with the
\* extended deanonymization map
Deanonymized(graphs, k) ==
    [document |-> [x \in DOMAIN graphs.disclosed_vc_vec[k].document |->
                      deanonymize_triple(graphs.extended_deanon_map,
                                         graphs.disclosed_vc_vec[k].document[x])],
     proof |-> [x \in DOMAIN graphs.disclosed_vc_vec[k].proof |->
                   deanonymize_triple(graphs.extended_deanon_map,
                                      graphs.disclosed_vc_vec[k].proof[x])]]

\* the i-th original passes the verification of its cryptosuite
PassesVerification(i) ==
    LET credential == derived.vc_pairs[i].original
    IN  IF is_bound(credential) = "true"
        THEN /\ derived.secret # None
             /\ blind_verify(derived.secret, credential,
                             proof_value_triple(credential.proof), sigs) = Ok
        ELSE /\ is_bound(credential) = "false"
             /\ verify(credential, proof_value_triple(credential.proof), sigs) = Ok

\* the derivation went as far as the graphs that gen_index_map is given
ReachedGraphs ==
    /\ Derived
    /\ derived.vc_pairs # << >> \/ derived.blind_sign_request # NoBlindSignRequest
    /\ \A i \in DOMAIN derived.vc_pairs : PassesVerification(i)
    /\ get_ppid(derived.domain, derived.secret, derived.with_ppid).err = Ok
    /\ encrypt_secret(derived.secret, derived.opener_pub_key).err = Ok

DeanonymizationFails(graphs) ==
    \E k \in DOMAIN graphs.disclosed_vc_vec :
        \E t \in Range(Deanonymized(graphs, k).document)
                     \cup Range(Deanonymized(graphs, k).proof) :
            DeAnonymization \in Range(t)

\* some disclosed triple, deanonymized, equals no triple of its original
DisclosedNotInOriginal(graphs) ==
    \E k \in DOMAIN graphs.disclosed_vc_vec :
        \/ \E t \in Range(Deanonymized(graphs, k).document) :
               t \notin Range(graphs.original_vc_vec[k].document)
        \/ \E t \in Range(Deanonymized(graphs, k).proof) :
               t \notin Range(graphs.original_vc_vec[k].proof)

\* the index map m is that of the disclosed triples in the original
IndexMapOf(m, original, disclosed) ==
    /\ m.document_len = Len(original.document)
    /\ m.proof_len = Len(original.proof)
    /\ DOMAIN m.document_map = DOMAIN disclosed.document
    /\ DOMAIN m.proof_map = DOMAIN disclosed.proof
    /\ \A x \in DOMAIN m.document_map :
           /\ m.document_map[x] \in 0..(m.document_len - 1)
           /\ original.document[m.document_map[x] + 1] = disclosed.document[x]
    /\ \A x \in DOMAIN m.proof_map :
           /\ m.proof_map[x] \in 0..(m.proof_len - 1)
           /\ original.proof[m.proof_map[x] + 1] = disclosed.proof[x]

\* C7: for each credential, gen_index_map maps every disclosed triple,
\* deanonymized with the extended deanonymization map, to the index of an
\* equal triple of the original triple list, below document_len resp.
\* proof_len, which are the lengths of the original; if some disclosed
\* document or proof triple equals no original triple, derive_proof returns
\* Err(DisclosedVCIsNotSubsetOfOriginalVC).
C7_IndexMapOfDisclosedTriples ==
    LET Holds(graphs) ==
            /\ derived.res = Ok =>
                   \A k \in DOMAIN derived.vp.proof_value.index_map :
                       IndexMapOf(derived.vp.proof_value.index_map[k],
                                  graphs.original_vc_vec[k], Deanonymized(graphs, k))
            /\ ( /\ graphs.err = Ok
                 /\ ~DeanonymizationFails(graphs)
                 /\ DisclosedNotInOriginal(graphs) )
                   => derived.res = "DisclosedVCIsNotSubsetOfOriginalVC"
    IN  ReachedGraphs => Holds(DerivedGraphs)

C7_Witness ==
    LET Mapped(graphs) ==
            \E k \in DOMAIN derived.vp.proof_value.index_map :
                /\ Len(derived.vp.proof_value.index_map[k].document_map)
                       < derived.vp.proof_value.index_map[k].document_len
                /\ Deanonymized(graphs, k).document # graphs.disclosed_vc_vec[k].document
    IN  /\ Derived
        /\ derived.res = Ok
        /\ Mapped(DerivedGraphs)

\* the credentials as they were issued, by the number of their signature
IssuedCredentials == << Cred1, Cred2, Cred3, Cred4, Cred5 >>

\* the document that the proof value of a credential was issued for
IssuedDocument(credential) ==
    LET k == CHOOSE k \in DOMAIN IssuedCredentials :
                 SigLiteral(k) = get_proof_value(credential)
    IN  IssuedCredentials[k].vc.document

DocumentModified(i) ==
    derived.vc_pairs[i].original.document # IssuedDocument(derived.vc_pairs[i].original)

CanonicalFormModified(i) ==
    canonicalize_into_terms(derived.vc_pairs[i].original.document)
        # canonicalize_into_terms(IssuedDocument(derived.vc_pairs[i].original))

\* C8 as stated: derive_proof returns a presentation only if every original
\* credential passes verification (verify for unbound, blind_verify with
\* the supplied secret for bound); if the document of any original was
\* modified after signing, derive_proof returns
\* Err(BBSPlus(InvalidSignature)) and produces no presentation.
C8_AnyModificationIsInvalidSignature ==
    Derived =>
        /\ derived.res = Ok => \A i \in DOMAIN derived.vc_pairs : PassesVerification(i)
        /\ (\E i \in DOMAIN derived.vc_pairs : DocumentModified(i))
               => (derived.res = InvalidSignature /\ derived.vp = NoVP)

\* C8 amended: derive_proof returns a presentation only if every original
\* credential passes verification; if a modification changed the canonical
\* form of the document of an original, that is, anything but a renaming
\* of its blank nodes, derive_proof returns an error and no presentation,
\* and the error is Err(BBSPlus(InvalidSignature)) when every original is of
\* the plain or the bound cryptosuite and a secret is supplied or no
\* original is bound (a bound original with no secret is
\* Err(MissingSecret)).
C8_CanonicalModificationRejected ==
    Derived =>
        /\ derived.res = Ok => \A i \in DOMAIN derived.vc_pairs : PassesVerification(i)
        /\ (\E i \in DOMAIN derived.vc_pairs : CanonicalFormModified(i))
               => (derived.res # Ok /\ derived.vp = NoVP)
        /\ ( /\ \E i \in DOMAIN derived.vc_pairs : CanonicalFormModified(i)
             /\ \A i \in DOMAIN derived.vc_pairs :
                    is_bound(derived.vc_pairs[i].original) \in {"false", "true"}
             /\ \/ derived.secret # None
                \/ \A i \in DOMAIN derived.vc_pairs :
                       is_bound(derived.vc_pairs[i].original) = "false" )
               => derived.res = InvalidSignature

C8_Witness ==
    /\ Derived
    /\ \E i \in DOMAIN derived.vc_pairs : CanonicalFormModified(i)
    /\ \A i \in DOMAIN derived.vc_pairs : is_bound(derived.vc_pairs[i].original) = "false"
    /\ derived.res = InvalidSignature
    /\ derived.vp = NoVP

\* the originals of the bound cryptosuite
BoundOriginals ==
    {i \in DOMAIN derived.vc_pairs : is_bound(derived.vc_pairs[i].original) = "true"}

\* the message at index 0 of the signature of the i-th original: the hash
\* of the secret that it was issued under
IssuedUnder(i) ==
    DecodeSignature(get_proof_value(derived.vc_pairs[i].original), sigs).messages[1]

\* C9: deriving from a bound credential with a holder secret different
\* from the one it was issued under fails with
\* Err(BBSPlus(InvalidSignature)); deriving one presentation from two bound
\* credentials issued under different secrets fails for either secret.
C9_SecretBinding ==
    (Derived /\ derived.secret # None) =>
        /\ (\E i \in BoundOriginals : IssuedUnder(i) # hash_byte_to_field(derived.secret))
               => derived.res = InvalidSignature
        /\ (\E i, j \in BoundOriginals : IssuedUnder(i) # IssuedUnder(j))
               => derived.res = InvalidSignature

C9_Witness ==
    /\ Derived
    /\ derived.secret = "SECRET"
    /\ tampered = 0
    /\ \E i, j \in BoundOriginals :
          /\ IssuedUnder(i) = hash_byte_to_field("SECRET")
          /\ IssuedUnder(j) = hash_byte_to_field("SECRET2")
    /\ derived.res = InvalidSignature

\* ------------------------------------------------------ claims C11 and C12

\* sign has just returned Ok on a credential that carried no proof value
SignedUnsecured ==
    /\ last.op = "sign"
    /\ last.res = Ok
    /\ signed.unsecured

\* the messages under the signature that sign has just made
SignedMessages == sigs[Len(sigs)].messages

\* the proof configuration of the credential: its proof graph without the
\* proof value
ProofConfigOf(credential) == {t \in credential.proof : Pred(t) # PROOF_VALUE}

\* C11: the vector that sign signs for an unbound credential has length
\* 1 + 3*|doc| + 1 + 3*|proof|; index 0 holds the scalar 1 of the
\* holder-secret slot, the hashes of the document terms in canonical order
\* follow, then the delimiter scalar at index 1 + 3*|doc|, then the hashes
\* of the proof-config terms.
C11_MessageVectorLayout ==
    SignedUnsecured =>
        LET Laid(m, doc, config) ==
                /\ Len(m) = 1 + Len(doc) + 1 + Len(config)
                /\ Len(doc) = 3 * Cardinality(vc.document)
                /\ Len(config) = 3 * Cardinality(ProofConfigOf(vc))
                /\ m[1] = FrOne
                /\ SubSeq(m, 2, 1 + Len(doc)) = doc
                /\ m[1 + Len(doc) + 1] = hash_to_field(DELIMITER)
                /\ SubSeq(m, 1 + Len(doc) + 2, Len(m)) = config
        IN  Laid(SignedMessages,
                 hash_terms_to_field(canonicalize_into_terms(vc.document)),
                 hash_terms_to_field(canonicalize_into_terms(ProofConfigOf(vc))))

\* the message count of the parameters under the signature of a credential
SignedCount(credential) ==
    DecodeSignature(get_proof_value(credential), sigs).params.message_count

\* the message count of the parameters that verify generates for a
\* credential of the plain cryptosuite
VerifyCount(credential) ==
    Len(hash(transform(credential.document, credential.proof),
             canonicalize_into_terms(get_proof_config(credential))))

\* the message counts of the parameters of the statements that
\* derive_proof has built, one for every credential graph of the
\* presentation
DeriveCounts ==
    [k \in DOMAIN derived.vp.proof_value.proof.spec.statements |->
        derived.vp.proof_value.proof.spec.statements[k].params.message_count]

\* the message counts of the parameters of the statements that
\* verify_proof builds for the presentation
VerifyProofCounts ==
    LET Counts(c14n, index_map) ==
            [k \in DOMAIN c14n |->
                get_disclosed_terms(
                    reorder_vc_triples(
                        [i \in DOMAIN c14n |-> VerifiableCredentialTriples_from(c14n[i])],
                        index_map)[k],
                    k - 1).term_count]
    IN  Counts(relabel(derived.vp.vcs, issue(derived.vp.vcs)),
               derived.vp.proof_value.index_map)

\* C12: for any credential, the message count n from which the parameters
\* are generated is the same in every operation on it: sign and verify use
\* the same n, and the statement that derive_proof builds for the
\* credential and the one that verify_proof builds use that same n, the
\* length of the vector that was signed.
C12_IdenticalParameterDerivation ==
    derived.res = Ok =>
        \A k \in DOMAIN derived.order :
            LET Same(n) ==
                    /\ is_bound(derived.vc_pairs[derived.order[k]].original) = "false"
                           => VerifyCount(derived.vc_pairs[derived.order[k]].original) = n
                    /\ DeriveCounts[k] = n
                    /\ VerifyProofCounts[k] = n
            IN  Same(SignedCount(derived.vc_pairs[derived.order[k]].original))

\* the part of C12 that sign and verify take: the parameters of verify are
\* those of the signature
C12_SignAndVerifyAgree ==
    derived.res = Ok =>
        \A k \in DOMAIN derived.order :
            is_bound(derived.vc_pairs[derived.order[k]].original) = "false"
                => VerifyCount(derived.vc_pairs[derived.order[k]].original)
                       = SignedCount(derived.vc_pairs[derived.order[k]].original)

\* the statement of derive_proof has one message more than the vector that
\* sign signed, the statement of verify_proof has as many
C12_DeriveCountsOneMore ==
    derived.res = Ok =>
        \A k \in DOMAIN derived.order :
            is_bound(derived.vc_pairs[derived.order[k]].original) = "false"
                => /\ DeriveCounts[k]
                          = SignedCount(derived.vc_pairs[derived.order[k]].original) + 1
                   /\ VerifyProofCounts[k]
                          = SignedCount(derived.vc_pairs[derived.order[k]].original)

\* ---------------------------------------------------------------- claim C13

\* derive_proof was called with the key of an opener and without a secret,
\* and no check before the encryption of the secret failed
OpenerWithoutSecret ==
    /\ Derived
    /\ derived.secret = None
    /\ derived.opener_pub_key # None
    /\ derived.vc_pairs # << >> \/ derived.blind_sign_request # NoBlindSignRequest
    /\ \A i \in DOMAIN derived.vc_pairs : PassesVerification(i)

\* C13: derive_proof returns a Result for every input and never panics;
\* called with the public key of an opener but without a secret it returns
\* Err(MissingSecretOrOpenerPubKey).
C13_NoPanic ==
    /\ Derived => derived.res # Panic
    /\ OpenerWithoutSecret => derived.res = "MissingSecretOrOpenerPubKey"

\* ---------------------------------------------------------------- claim C14

\* sign has just run
Signing == last.op = "sign"

\* the objects that the proof graph has for a predicate of its
\* DataIntegrityProof subjects
ProofObjects(p) ==
    {Obj(t) : t \in {u \in vc.proof :
                        /\ Pred(u) = p
                        /\ << Subj(u), TYPE, DATA_INTEGRITY_PROOF >> \in vc.proof}}

\* no subject typed DataIntegrityProof, or its cryptosuite is missing, not
\* a literal or not bbs-termwise-signature-2023
CryptosuiteRejected ==
    \/ ProofObjects(TYPE) = {}
    \/ ProofObjects(CRYPTOSUITE) = {}
    \/ \E c \in ProofObjects(CRYPTOSUITE) : c \notin Literals \/ c # CRYPTOSUITE_SIGN

\* created is missing, not a literal, not parsable or not of datatype
\* xsd:dateTime
CreatedRejected ==
    \/ ProofObjects(CREATED) = {}
    \/ \E c \in ProofObjects(CREATED) :
           c \notin Literals \/ c \notin DateTimeParsable \/ c \notin DateTimeTyped

\* the verification method is present but not an IRI
VerificationMethodRejected ==
    \E m \in ProofObjects(VERIFICATION_METHOD) : m \notin NamedNodes

C14_WitnessOfVerificationMethod ==
    /\ Signing
    /\ VerificationMethodRejected
    /\ last.res = "InvalidVerificationMethodURL"

\* ---------------------------------------------------------------- claim C15

\* C15: a successful sign changes the credential only by inserting one
\* proofValue triple, whose subject is the DataIntegrityProof subject and
\* whose object is the literal of the signature, into the proof graph; the
\* document graph and all other proof triples are unchanged; when sign
\* returns Err the credential is left unchanged.
C15_SignOnlyAddsProofValue ==
    [][last'.op = "sign" =>
          /\ vc'.document = vc.document
          /\ last'.res = Ok =>
                 /\ vc.proof \subseteq vc'.proof
                 /\ Cardinality(vc'.proof \ vc.proof) = 1
                 /\ \A t \in vc'.proof \ vc.proof :
                        /\ << Subj(t), TYPE, DATA_INTEGRITY_PROOF >> \in vc.proof
                        /\ Pred(t) = PROOF_VALUE
                        /\ Obj(t) = SigLiteral(Len(sigs'))
                        /\ Obj(t) \in Literals
                 /\ Len(sigs') = Len(sigs) + 1
          /\ last'.res # Ok => (vc' = vc /\ sigs' = sigs)]_vars

C15_Witness ==
    /\ last.op = "sign"
    /\ last.res = Ok
    /\ Cardinality(triples_for_predicate(vc.proof, PROOF_VALUE)) = 2
    /\ Cardinality(vc.proof) = 7

\* ---------------------------------------------------------------- claim C16

\* the verification methods of a proof graph
VerificationMethodsOf(proof) ==
    {Obj(t) : t \in triples_for_predicate(proof, VERIFICATION_METHOD)}

\* the credential is as sign left it but for the verification method
VerificationMethodReplaced ==
    /\ signed.ok
    /\ vc.document = signed.vc.document
    /\ {t \in vc.proof : Pred(t) # VERIFICATION_METHOD}
           = {t \in signed.vc.proof : Pred(t) # VERIFICATION_METHOD}
    /\ VerificationMethodsOf(vc.proof) # VerificationMethodsOf(signed.vc.proof)

\* verify has just run on a credential whose verification method is the IRI
\* of an issuer with a key in the key graph, and that key is not the one
\* that any of its proof values was produced under
VerifiedUnderOtherKey ==
    /\ last.op = "verify"
    /\ triples_for_predicate(vc.proof, PROOF_VALUE) # {}
    /\ VerificationMethodsOf(vc.proof) \subseteq {Issuer0, Issuer1}
    /\ \A vm \in VerificationMethodsOf(vc.proof) :
         \A t \in triples_for_predicate(vc.proof, PROOF_VALUE) :
             /\ DecodeSignature(Obj(t), sigs) # NoSig
             /\ get_public_key(vm) # PublicKeyOf(DecodeSignature(Obj(t), sigs).sk)

\* C16: verify returns Err(BBSPlus(InvalidSignature)) when the verification
\* method of the proof configuration is replaced by another issuer's IRI
\* that resolves in the key graph, so that the public key resolved at
\* verification is not the one the proof value was produced under.
C16_WrongKeyRejected ==
    VerifiedUnderOtherKey => last.res = "BBSPlus(InvalidSignature)"

C16_Witness ==
    /\ VerifiedUnderOtherKey
    /\ VerificationMethodReplaced
    /\ signed.unsecured
    /\ VerificationMethodsOf(signed.vc.proof) = {Issuer0}
    /\ VerificationMethodsOf(vc.proof) = {Issuer1}
    /\ get_public_key(Issuer1) # PublicKeyOf(DecodeSignature(get_proof_value(vc), sigs).sk)
    /\ last.res = "BBSPlus(InvalidSignature)"

\* ---------------------------------------------------------------- claim C17

\* the issuer keys of all the originals resolve and every original before
\* the i-th passes its verification, so that the i-th is the first that
\* derive_proof can reject
FirstToFail(i) ==
    /\ \A j \in DOMAIN derived.vc_pairs :
           get_public_keys(derived.vc_pairs[j].original.proof).err = Ok
    /\ \A j \in 1..(i - 1) : PassesVerification(j)

\* the originals of a cryptosuite that is neither the plain nor the bound one
OriginalsOfOtherSuite ==
    {i \in DOMAIN derived.vc_pairs :
         is_bound(derived.vc_pairs[i].original) \notin {"false", "true"}}

C17_WitnessOfOtherSuite ==
    /\ Derived
    /\ derived.secret = "SECRET"
    /\ 2 \in OriginalsOfOtherSuite
    /\ FirstToFail(2)
    /\ derived.res = "VCWithUnsupportedCryptosuite"

\* ---------------------------------------------------------------- claim C18

\* the derivation was from no credentials, with the blind sign request of
\* the holder for the secret "SECRET" and with that secret
FromRequestOnly ==
    /\ derived.vc_pairs = << >>
    /\ derived.blind_sign_request = BlindSignRequest("SECRET", "r1")
    /\ derived.secret = "SECRET"
    /\ derived.predicates = << >>
    /\ derived.opener_pub_key = None

\* derive_proof returns Err(MissingInputToDeriveProof) exactly when vc_pairs
\* is empty and no blind sign request is given
MissingInputExactlyWhenNoInput ==
    Derived =>
        (derived.res = "MissingInputToDeriveProof"
             <=> (derived.vc_pairs = << >> /\ derived.blind_sign_request = NoBlindSignRequest))

\* with no credentials, a blind sign request and the secret of the request,
\* derive_proof succeeds
RequestOnlyDerives ==
    (Derived /\ FromRequestOnly) => derived.res = Ok

\* the presentation derived so is accepted by verify_proof under the nonce
\* and the domain that it was derived with
RequestOnlyAccepted ==
    ( /\ last.op = "verify_proof"
      /\ FromRequestOnly
      /\ last.arg.nonce = derived.challenge
      /\ last.arg.domain = derived.domain )
        => last.res = Ok

\* C18: derive_proof returns Err(MissingInputToDeriveProof) exactly when
\* vc_pairs is empty and no blind sign request is given, before any other
\* check; with empty vc_pairs, a blind sign request and the matching secret,
\* derive_proof succeeds and verify_proof accepts the presentation.
C18_MissingInput ==
    /\ MissingInputExactlyWhenNoInput
    /\ RequestOnlyDerives
    /\ RequestOnlyAccepted

\* a presentation derived from the request only has been rejected
RequestOnlyRejected ==
    /\ last.op = "verify_proof"
    /\ FromRequestOnly
    /\ last.arg.nonce = derived.challenge
    /\ last.arg.domain = derived.domain
    /\ last.res # Ok

\* ---------------------------------------------------------------- claim C19

\* the derivation was with a secret and the public key of an opener
WithOpener ==
    /\ derived.secret # None
    /\ derived.opener_pub_key = OpenerPubKey

\* such a derivation of a presentation succeeds, with the ciphertext of the
\* secret in the proof of the presentation
OpenerDerives ==
    /\ Derived
    /\ WithOpener
    /\ derived.res = Ok
    /\ \E t \in derived.vp.proof :
           /\ Pred(t) = ENCRYPTED_UID
           /\ Obj(t) = ElGamalCiphertext(OpenerPubKey, hash_byte_to_field(derived.secret))

\* C19: a presentation derived with a secret and an opener public key is
\* accepted by verify_proof when the same opener public key is supplied,
\* and also when no opener public key is supplied.  verify_proof takes no
\* opener public key: the two cases are the one call.
C19_OpenerEncryption ==
    ( /\ last.op = "verify_proof"
      /\ WithOpener
      /\ last.arg.nonce = derived.challenge
      /\ last.arg.domain = derived.domain )
        => last.res = Ok

\* a presentation derived with an opener public key has been rejected
OpenerRejected ==
    /\ last.op = "verify_proof"
    /\ WithOpener
    /\ last.arg.nonce = derived.challenge
    /\ last.arg.domain = derived.domain
    /\ last.res = "ProofSystem"

\* ---------------------------------------------------------------- claim C20

\* the derivation was with one predicate of a circuit of the verifier, whose
\* private variable is the date of birth that the disclosed document hides,
\* from a credential that passes its verification
WithPredicateOnHiddenDate ==
    /\ Len(derived.predicates) = 1
    /\ derived.predicates[1].circuit \in Circuits
    /\ Len(derived.vc_pairs) = 1
    /\ << John, "schema:birthDate", derived.predicates[1].private[1][2] >>
           \in derived.vc_pairs[1].disclosed.document
    /\ PassesVerification(1)

\* whether the hidden date and the public date satisfy the circuit
PredicateSatisfied ==
    LET Holds(witness) ==
            CircuitHolds(derived.predicates[1].circuit, witness.private, witness.public)
    IN  Holds(predicate_witness(derived.predicates[1], DeanonMap))

\* the hidden date and the public date are the same
PredicateOfEqualDates ==
    derived.predicates[1].public[1][2] = DeanonMap[derived.predicates[1].private[1][2]]

\* verify_proof has just run under the nonce and domain of the derivation
VerifiedCoherently ==
    /\ last.op = "verify_proof"
    /\ last.arg.nonce = derived.challenge
    /\ last.arg.domain = derived.domain

\* the derivation returns Ok whether the predicate is satisfied or not
PredicateDerives ==
    (Derived /\ WithPredicateOnHiddenDate) => derived.res = Ok

\* a presentation whose predicate is not satisfied is rejected
UnsatisfiedPredicateRejected ==
    (VerifiedCoherently /\ WithPredicateOnHiddenDate /\ ~PredicateSatisfied)
        => last.res = "ProofSystem"

\* equal dates are accepted by the less-than-or-equal circuit
EqualDatesAccepted ==
    ( /\ VerifiedCoherently
      /\ WithPredicateOnHiddenDate
      /\ derived.predicates[1].circuit = LessThanEqPrvPub
      /\ PredicateOfEqualDates )
        => last.res = Ok

\* C20: for a presentation derived with a lessThan predicate whose private
\* variable is a hidden signed value, if lesser < greater does not hold
\* then verify_proof returns a ProofSystem error, the derivation itself
\* returning Ok; equal values are rejected by the strict less-than circuit
\* and accepted by the less-than-or-equal circuit.
C20_PredicateSoundness ==
    /\ PredicateDerives
    /\ UnsatisfiedPredicateRejected
    /\ EqualDatesAccepted

\* equal dates under the strict circuit have been rejected
EqualDatesRejectedStrictly ==
    /\ VerifiedCoherently
    /\ WithPredicateOnHiddenDate
    /\ derived.predicates[1].circuit = LessThanPrvPub
    /\ PredicateOfEqualDates
    /\ ~PredicateSatisfied
    /\ last.res = "ProofSystem"

\* equal dates under the less-than-or-equal circuit have been rejected, the
\* predicate being satisfied
EqualDatesRejected ==
    /\ VerifiedCoherently
    /\ WithPredicateOnHiddenDate
    /\ derived.predicates[1].circuit = LessThanEqPrvPub
    /\ PredicateOfEqualDates
    /\ PredicateSatisfied
    /\ last.res = "ProofSystem"

\* ---------------------------------------------------------------- claim C21

\* derive_proof has just returned a presentation
DerivedOk == Derived /\ derived.res = Ok

\* the proof spec that the prover proved
ProvedSpec == derived.vp.proof_value.proof.spec

\* the verifier rebuilds the context of the prover
SameContext ==
    DerivedOk =>
        LET Same(rebuilt) == rebuilt.context = ProvedSpec.context
        IN  Same(verify_proof_spec(derived.vp))

\* the verifier rebuilds the statements of the prover, in their order
SameStatements ==
    DerivedOk =>
        LET Same(rebuilt) == rebuilt.statements = ProvedSpec.statements
        IN  Same(verify_proof_spec(derived.vp))

\* the verifier rebuilds the equalities of the prover
SameMetaStatements ==
    DerivedOk =>
        LET Same(rebuilt) == rebuilt.meta_statements = ProvedSpec.meta_statements
        IN  Same(verify_proof_spec(derived.vp))

\* C21: for every presentation that derive_proof produces, verify_proof
\* rebuilds the statements of the prover in the same order with the same
\* revealed messages, the same set of equality meta-statements, and the
\* same context (the serialized canonical presentation without its proof
\* value, with the index map).
C21_VerifierRebuildsProofSpec ==
    /\ SameContext
    /\ SameStatements
    /\ SameMetaStatements

\* a presentation of one plain credential, with nothing else to prove, whose
\* statement the verifier rebuilds for other parameters
RebuiltForOtherParameters ==
    /\ DerivedOk
    /\ Len(derived.vc_pairs) = 1
    /\ derived.blind_sign_request = NoBlindSignRequest
    /\ derived.predicates = << >>
    /\ derived.opener_pub_key = None
    /\ LET Differs(rebuilt) ==
               /\ Len(rebuilt.statements) = 1
               /\ Len(ProvedSpec.statements) = 1
               /\ rebuilt.statements[1].params.message_count + 1
                      = ProvedSpec.statements[1].params.message_count
               /\ rebuilt.context = ProvedSpec.context
       IN  Differs(verify_proof_spec(derived.vp))

\* ---------------------------------------------------------------- claim C22

\* the blank nodes that the document and the proof configuration share
SharedBlankNodes(credential) ==
    BlankNodesOf(credential.document) \cap BlankNodesOf(ProofConfigOf(credential))

\* the messages of the document and of the proof configuration under the
\* signature that sign has just made: those before and those after the
\* delimiter
DocumentPart(m) == SubSeq(m, 1, 3 * Cardinality(vc.document))
ProofConfigPart(m) == SubSeq(m, 3 * Cardinality(vc.document) + 2, Len(m))

\* the messages are the hashes of the terms of the two graphs, the document
\* relabelled by one map and the proof configuration by the other
EncodedUnder(m, document_map, proof_map) ==
    /\ DocumentPart(m)
           = hash_terms_to_field(
                 TermsOfTriples(sort_graph(relabel_graph(vc.document, document_map))))
    /\ ProofConfigPart(m)
           = hash_terms_to_field(
                 TermsOfTriples(sort_graph(relabel_graph(ProofConfigOf(vc), proof_map))))

\* the hashes of the first k canonical labels
HashedLabels(k) == {hash_to_field(CanonLabel(i)) : i \in 0..(k - 1)}

\* the hashes of blank node labels among messages
HashedBlankNodes(m) == {m[i] : i \in DOMAIN m} \cap {hash_to_field(b) : b \in BlankNodes}

\* C22 as stated: the document and the proof configuration are canonicalized
\* jointly, so that a blank node that occurs in both graphs is hashed under
\* the same canonical label in the document part and in the proof-config
\* part of the message vector.
C22_JointCanonicalization ==
    SignedUnsecured =>
        /\ EncodedUnder(SignedMessages, issue_graph(vc.document),
                        issue_graph(ProofConfigOf(vc)))
        /\ \A b \in SharedBlankNodes(vc) :
               issue_graph(vc.document)[b] = issue_graph(ProofConfigOf(vc))[b]

\* C22 amended: the document and the proof configuration are canonicalized
\* each on its own: the k blank nodes of the document are hashed under the
\* labels _:c14n0 .. _:c14n(k-1) in the document part, and the j blank nodes
\* of the proof configuration under _:c14n0 .. _:c14n(j-1) in the
\* proof-config part, whether the graphs share blank nodes or not.
C22_SeparateCanonicalization ==
    SignedUnsecured =>
        /\ EncodedUnder(SignedMessages, issue_graph(vc.document),
                        issue_graph(ProofConfigOf(vc)))
        /\ HashedBlankNodes(DocumentPart(SignedMessages))
               = HashedLabels(Cardinality(BlankNodesOf(vc.document)))
        /\ HashedBlankNodes(ProofConfigPart(SignedMessages))
               = HashedLabels(Cardinality(BlankNodesOf(ProofConfigOf(vc))))

C22_Witness ==
    /\ SignedUnsecured
    /\ \E b \in SharedBlankNodes(vc) :
           /\ issue_graph(vc.document)[b] = CanonLabel(1)
           /\ issue_graph(ProofConfigOf(vc))[b] = CanonLabel(0)
           /\ hash_to_field(CanonLabel(1)) \in HashedBlankNodes(DocumentPart(SignedMessages))
           /\ HashedBlankNodes(ProofConfigPart(SignedMessages)) = {hash_to_field(CanonLabel(0))}

\* ---------------------------------------------------------------- claim C23

\* the disclosed triples of the canonical presentation that a proof spec
\* is bound to, at their places in the originals
DisclosedInPlace(spec) ==
    reorder_vc_triples(
        [i \in DOMAIN spec.context.vp.vcs |->
            VerifiableCredentialTriples_from(spec.context.vp.vcs[i])],
        spec.context.index_map)

\* the positions (statement index, message index) where an identifier is a
\* term of the disclosed triples
TermPositions(placed, id) ==
    LET In(triples, first, i) ==
            {<< i - 1, first + 3 * (e[1] - 1) + e[2] >> :
                e \in {x \in (DOMAIN triples) \X (0..2) :
                          /\ triples[x[1]] # NoTriple
                          /\ triples[x[1]][x[2] + 1] = id}}
    IN  UNION {In(placed[i].document, 1, i)
                   \cup In(placed[i].proof, 1 + 3 * Len(placed[i].document) + 1, i) :
               i \in DOMAIN placed}

\* the positions of the private variables of the predicates that are bound
\* to an identifier: in every predicate the first variable bound to it
PrivatePositions(spec, id) ==
    LET predicates == spec.context.vp.predicates
        first == Len(spec.statements) - Len(predicates)
    IN  UNION {{<< first + p - 1, j - 1 >> :
                   j \in {x \in DOMAIN predicates[p].private :
                             /\ predicates[p].private[x][2] = id
                             /\ \A y \in 1..(x - 1) : predicates[p].private[y][2] # id}} :
               p \in DOMAIN predicates}

\* the canonical identifiers that are terms of the disclosed triples
DisclosedIdentifiers(placed) ==
    {id \in BlankNodes : TermPositions(placed, id) # {}}

\* the equalities of a proof spec over terms of the credentials
TermEqualities(spec) ==
    {S \in spec.meta_statements :
        \E e \in S : e[1] < Len(spec.context.vp.vcs) /\ e[2] > 0}

TermEqualitiesAsClaimed(spec, placed) ==
    /\ TermEqualities(spec)
           = {S \in {TermPositions(placed, id) \cup PrivatePositions(spec, id) :
                        id \in DisclosedIdentifiers(placed)} : Cardinality(S) >= 2}
    /\ \A id \in DisclosedIdentifiers(placed) :
           Cardinality(TermPositions(placed, id) \cup PrivatePositions(spec, id)) = 1
               => \A S \in spec.meta_statements : TermPositions(placed, id) \cap S = {}

HasEqualityOfSize(spec, placed, n, private) ==
    \E id \in DisclosedIdentifiers(placed) :
        /\ Cardinality(TermPositions(placed, id) \cup PrivatePositions(spec, id)) = n
        /\ (PrivatePositions(spec, id) # {}) = private

C23_WitnessOfSinglePosition ==
    /\ DerivedOk
    /\ LET Has(spec) == HasEqualityOfSize(spec, DisclosedInPlace(spec), 1, FALSE)
       IN  Has(ProvedSpec)

C23_WitnessAcrossCredentials ==
    /\ DerivedOk
    /\ Len(derived.vc_pairs) = 2
    /\ LET Has(spec) ==
               \E S \in TermEqualities(spec) : {e[1] : e \in S} = {0, 1}
       IN  Has(ProvedSpec)

\* ---------------------------------------------------------------- claim C24

\* the indexes that a statement has among the statements of a proof spec
IndexesOf(spec, statement) ==
    {i - 1 : i \in {x \in DOMAIN spec.statements : spec.statements[x] = statement}}

\* the pseudonym of the derivation
DerivedPPID == get_ppid(derived.domain, derived.secret, derived.with_ppid).val

\* the statement of the pseudonym and the statement of the secret commitment
PPIDStatement(ppid) ==
    PedersenCommitment_new_statement_from_params(<< ppid.base >>, ppid.ppid)

SecretCommitmentStatement ==
    PedersenCommitment_new_statement_from_params(
        RequestBases, derived.blind_sign_request.commitment)

\* the positions of the secret: message 0 of every bound credential, in the
\* order of the graphs of the presentation, message 0 of the pseudonym and
\* message 1 of the secret commitment
SecretPositions(spec, ppid) ==
    {<< k - 1, 0 >> :
        k \in {x \in DOMAIN derived.order :
                  is_bound(derived.vc_pairs[derived.order[x]].original) = "true"}}
    \cup (IF derived.with_ppid
          THEN {<< i, 0 >> : i \in IndexesOf(spec, PPIDStatement(ppid))} ELSE {})
    \cup (IF derived.blind_sign_request # NoBlindSignRequest
          THEN {<< i, 1 >> : i \in IndexesOf(spec, SecretCommitmentStatement)} ELSE {})

\* the equalities of a proof spec that are not over terms of credentials
SecretEqualities(spec) == spec.meta_statements \ TermEqualities(spec)

\* C24: the proof spec of derive_proof has at most one equality of secrets;
\* it is over message 0 of every bound credential, message 0 of the
\* pseudonym if there is one and message 1 of the secret commitment if
\* there is a blind sign request, and it is there exactly when these
\* positions are two or more
C24_SecretEquality ==
    DerivedOk =>
        LET Holds(spec, positions) ==
                SecretEqualities(spec)
                    = (IF Cardinality(positions) >= 2 THEN {positions} ELSE {})
        IN  Holds(ProvedSpec, SecretPositions(ProvedSpec, DerivedPPID))

\* a derivation from a bound credential with a pseudonym and a blind sign
\* request: the equality is over three positions
C24_Witness ==
    /\ DerivedOk
    /\ derived.with_ppid
    /\ derived.blind_sign_request # NoBlindSignRequest
    /\ BoundOriginals # {}
    /\ \E S \in SecretEqualities(ProvedSpec) : Cardinality(S) >= 3

\* a derivation with the secret at one position only
C24_WitnessOfSinglePosition ==
    /\ DerivedOk
    /\ Cardinality(SecretPositions(ProvedSpec, DerivedPPID)) = 1
    /\ SecretEqualities(ProvedSpec) = {}

\* ---------------------------------------------------------------- claim C25

\* the proof spec, the witnesses and the recorded indexes of the derivation,
\* from the graphs that it made
DerivedParts(graphs) ==
    proof_spec_and_witnesses(
        derived.secret, graphs.original_vc_vec, graphs.is_bound_vec, graphs.disclosed_vc_vec,
        [i \in DOMAIN derived.vc_pairs |->
            get_public_keys(derived.vc_pairs[i].original.proof).val],
        graphs.vc_proof_values_vec,
        gen_index_map(graphs.original_vc_vec, graphs.disclosed_vc_vec,
                      graphs.extended_deanon_map).val,
        [proof |-> graphs.vp_draft.proof, vcs |-> graphs.vp_draft.vcs,
         holder |-> graphs.vp_draft.holder, holder_id |-> graphs.vp_draft.holder_id,
         predicates |-> graphs.vp_draft.predicates],
        derived.challenge, derived.blind_sign_request, DerivedPPID,
        graphs.vp_draft.predicates, Circuits, graphs.extended_deanon_map,
        encrypt_secret(derived.secret, derived.opener_pub_key).val, sigs)

\* the kinds of the statements in the order that is claimed: one proof of
\* knowledge of a signature for every credential, the pseudonym, the
\* verifiable encryption, the secret commitment, one R1CS statement for
\* every predicate
KindsInFixedOrder ==
    [i \in DOMAIN derived.vc_pairs |-> "PoKBBSSignatureG1"]
        \o (IF derived.with_ppid THEN << "PedersenCommitment" >> ELSE << >>)
        \o (IF derived.opener_pub_key # None THEN << "ElGamalEncryption" >> ELSE << >>)
        \o (IF derived.blind_sign_request # NoBlindSignRequest
            THEN << "PedersenCommitment" >> ELSE << >>)
        \o [i \in DOMAIN derived.predicates |-> "R1CSCircomProver"]

\* the statements are in the fixed order
StatementsInFixedOrder(parts) ==
    /\ [i \in DOMAIN parts.proof_spec.statements |-> parts.proof_spec.statements[i].kind]
           = KindsInFixedOrder
    /\ derived.with_ppid =>
           parts.proof_spec.statements[Len(derived.vc_pairs) + 1] = PPIDStatement(DerivedPPID)
    /\ derived.blind_sign_request # NoBlindSignRequest =>
           parts.proof_spec.statements[
               Len(derived.vc_pairs) + (IF derived.with_ppid THEN 1 ELSE 0)
                   + (IF derived.opener_pub_key # None THEN 1 ELSE 0) + 1]
               = SecretCommitmentStatement

\* the recorded indexes are the positions of the statements
RecordedIndexesAreActual(parts) ==
    /\ parts.ppid_index
           = (IF derived.with_ppid
              THEN IndexesOf(parts.proof_spec, PPIDStatement(DerivedPPID)) ELSE {})
    /\ parts.secret_commitment_index
           = (IF derived.blind_sign_request # NoBlindSignRequest
              THEN IndexesOf(parts.proof_spec, SecretCommitmentStatement) ELSE {})
    /\ DOMAIN parts.predicate_indexes = DOMAIN derived.predicates
    /\ \A p \in DOMAIN derived.predicates :
           /\ parts.predicate_indexes[p]
                  = Len(parts.proof_spec.statements) - Len(derived.predicates) + p - 1
           /\ parts.proof_spec.statements[parts.predicate_indexes[p] + 1]
                  = R1CSCircomProver_new_statement_from_params(derived.predicates[p].circuit)

\* the witness at index i is the witness of what the statement at index i
\* states: the signature of the credential, the hash of the secret, the
\* plaintext of the ciphertext, the opening of the commitment, the inputs of
\* the circuit
WitnessBelongsTo(parts, graphs, i) ==
    LET statement == parts.proof_spec.statements[i]
        witness == parts.witnesses[i]
    IN  IF statement.kind = "PoKBBSSignatureG1"
        THEN /\ witness.signature = DecodeSignature(graphs.vc_proof_values_vec[i], sigs)
             /\ {e[1] : e \in statement.revealed} \cup {e[1] : e \in witness.unrevealed}
                    = 0..(statement.params.message_count - 1)
        ELSE IF statement.kind = "PedersenCommitment" /\ Len(statement.bases) = 1
        THEN WitnessSatisfies(statement, witness)
        ELSE IF statement.kind = "PedersenCommitment"
        THEN witness = << derived.blind_sign_request.blinding,
                          hash_byte_to_field(derived.secret) >>
        ELSE IF statement.kind = "ElGamalEncryption"
        THEN WitnessSatisfies(statement, witness)
        ELSE /\ Len(witness.private) = Len(graphs.vp_draft.predicates[
                                               i - parts.predicate_indexes[1]].private)
             /\ witness = predicate_witness(
                              graphs.vp_draft.predicates[i - parts.predicate_indexes[1]],
                              graphs.extended_deanon_map)

FixedOrder(parts, graphs) ==
    /\ parts.proof_spec = ProvedSpec
    /\ StatementsInFixedOrder(parts)
    /\ RecordedIndexesAreActual(parts)
    /\ Len(parts.witnesses) = Len(parts.proof_spec.statements)
    /\ \A i \in DOMAIN parts.witnesses : WitnessBelongsTo(parts, graphs, i)

\* C25: the statements of derive_proof_value are, in this order, one proof
\* of knowledge of a signature for every credential, the pseudonym if there
\* is one, the verifiable encryption if there is one, the secret commitment
\* if there is one, and one R1CS statement for every predicate; the recorded
\* indexes of the pseudonym, of the secret commitment and of the predicates
\* are the positions of these statements; and the witness at every index is
\* that of the statement at the same index
C25_FixedStatementOrder ==
    DerivedOk =>
        LET Holds(graphs) == FixedOrder(DerivedParts(graphs), graphs)
        IN  Holds(DerivedGraphs)

\* a derivation with a credential, a pseudonym, a verifiable encryption and
\* a secret commitment
C25_Witness ==
    /\ DerivedOk
    /\ derived.vc_pairs # << >>
    /\ derived.with_ppid
    /\ derived.opener_pub_key # None
    /\ derived.blind_sign_request # NoBlindSignRequest
    /\ Len(ProvedSpec.statements) = Len(derived.vc_pairs) + 3

\* a derivation with a predicate
C25_WitnessOfPredicate ==
    /\ DerivedOk
    /\ derived.predicates # << >>
    /\ ProvedSpec.statements[Len(ProvedSpec.statements)].kind = "R1CSCircomProver"

\* ---------------------------------------------------------------- claim C26

\* the proof of knowledge of the request of the holder verifies against the
\* context of blind sign requests and a nonce
RequestVerifies(nonce) ==
    Proof_verify(req.request.proof,
                 ProofSpec_new(<< PedersenCommitment_new_statement_from_params(
                                      RequestBases, req.request.commitment) >>,
                               {}, BLIND_SIG_REQUEST_CONTEXT),
                 nonce)

\* C26: a request made with a nonce verifies under that nonce and under no
\* other, a missing nonce being a nonce of its own; blind_sign verifies the
\* proof of knowledge of the request against the context of blind sign
\* requests and its nonce before it signs: when that fails it returns the
\* error of the verification, makes no signature and leaves the credential
\* as it was, without a proof value if it had none
C26_BlindSignGating ==
    /\ [](stage # "none" => \A nonce \in Nonces : RequestVerifies(nonce) <=> nonce = req.nonce)
    /\ [][last'.op = "blind_sign" =>
              /\ ~RequestVerifies(last'.arg) =>
                     /\ last'.res = "ProofVerification"
                     /\ sigs' = sigs
                     /\ vc' = vc
              /\ last'.res = Ok => RequestVerifies(last'.arg)]_vars

\* blind_sign has refused a request under another nonce than its own, and
\* the credential has no proof value
C26_Witness ==
    /\ last.op = "blind_sign"
    /\ last.arg # req.nonce
    /\ last.res = "ProofVerification"
    /\ triples_for_predicate(vc.proof, PROOF_VALUE) = {}
    /\ sigs = << >>

\* blind_sign has signed for a request under its nonce
C26_WitnessOfSigning ==
    /\ last.op = "blind_sign"
    /\ last.arg = req.nonce
    /\ last.res = Ok
    /\ triples_for_predicate(vc.proof, PROOF_VALUE) # {}

\* ---------------------------------------------------------------- claim C27

\* the encoded terms of a credential: the hashes of the terms of its
\* canonical document, the delimiter, the hashes of the terms of its
\* canonical proof configuration
EncodedTerms(credential) ==
    hash_terms_to_field(
        TermsOfTriples(sort_graph(relabel_graph(credential.document,
                                                issue_graph(credential.document)))))
    \o << get_delimiter >>
    \o hash_terms_to_field(
           TermsOfTriples(sort_graph(relabel_graph(credential.proof,
                                                   issue_graph(credential.proof)))))

\* the signature is over the commitment of the request at index 0 and the
\* encoded terms after it, under the parameters for one message more than
\* the terms
BlindSignedLayout(sig, terms) ==
    /\ Len(terms) = 3 * Cardinality(vc.document) + 1 + 3 * Cardinality(vc.proof)
    /\ sig.params = generate_params(Len(terms) + 1)
    /\ Len(sig.messages) = Len(terms) + 1
    /\ sig.messages[1] = hash_byte_to_field(req.secret)
    /\ sig.blinding = req.blinding
    /\ \A i \in 0..(Len(terms) - 1) : sig.messages[i + 2] = terms[i + 1]

\* C27: blind_sign signs under params(n + 1), n being the number of the
\* encoded terms of the document, the delimiter and the proof configuration;
\* the commitment of the holder is the one committed message, at index 0,
\* and the i-th encoded term is the uncommitted message at index i + 1; the
\* commitment of the request is h_0^blinding * h[0]^Hash(secret), over the
\* bases of params(1)
C27_BlindSignLayout ==
    /\ [](stage # "none" =>
              req.request.commitment
                  = commit_to_messages(<< "h_0", "h[0]" >>,
                                       << hash_byte_to_field(req.secret) >>, req.blinding))
    /\ [][(last'.op = "blind_sign" /\ last'.res = Ok) =>
              BlindSignedLayout(sigs'[Len(sigs')], EncodedTerms(vc))]_vars

\* blind_sign has signed an unsecured credential with a blank node
C27_Witness ==
    /\ last.op = "blind_sign"
    /\ last.res = Ok
    /\ Len(sigs) = 1
    /\ Len(sigs[1].messages) = 3 * 3 + 1 + 3 * 5 + 1
    /\ BlankNodesOf(vc.document) # {}

\* ---------------------------------------------------------------- claim C28

\* the indexes of a map of messages, a set of pairs << index, message >>
IndexesIn(messages) == {e[1] : e \in messages}

\* the indexes of the terms of the triples: of those that are not disclosed,
\* and of the blank nodes of those that are disclosed
HiddenTermIndexes(triples, first) ==
    {first + 3 * (e[1] - 1) + e[2] :
        e \in {x \in (DOMAIN triples) \X (0..2) :
                  \/ triples[x[1]] = NoTriple
                  \/ triples[x[1]][x[2] + 1] \in BlankNodes}}

\* the disclosed and the undisclosed messages of a credential part the
\* indexes of its messages as claimed
PartitionAsClaimed(disclosed, undisclosed, term_count, original, placed, bound) ==
    LET delimiter_index == 1 + 3 * Len(original.document)
    IN  /\ term_count = 1 + 3 * Len(original.document) + 1 + 3 * Len(original.proof)
        /\ IndexesIn(disclosed) \cap IndexesIn(undisclosed) = {}
        /\ IndexesIn(disclosed) \cup IndexesIn(undisclosed) = 0..(term_count - 1)
        /\ Cardinality(disclosed) + Cardinality(undisclosed) = term_count
        /\ IF bound
           THEN << 0, hash_byte_to_field(derived.secret) >> \in undisclosed
           ELSE << 0, FrOne >> \in disclosed
        /\ << delimiter_index, get_delimiter >> \in disclosed
        /\ Len(placed.document) = Len(original.document)
        /\ Len(placed.proof) = Len(original.proof)
        /\ IndexesIn(undisclosed) \ {0}
               = HiddenTermIndexes(placed.document, 1)
                     \cup HiddenTermIndexes(placed.proof, delimiter_index + 1)

PartitionOfEvery(parts, graphs) ==
    \A i \in DOMAIN graphs.original_vc_vec :
        PartitionAsClaimed(parts.proof_spec.statements[i].revealed,
                           parts.witnesses[i].unrevealed,
                           parts.proof_spec.statements[i].params.message_count,
                           graphs.original_vc_vec[i],
                           DisclosedInPlace(parts.proof_spec)[i],
                           graphs.is_bound_vec[i])

C28_WitnessOfBlankNode ==
    /\ DerivedOk
    /\ LET Has(placed) ==
               \E i \in DOMAIN placed :
                   /\ is_bound(derived.vc_pairs[derived.order[i]].original) = "false"
                   /\ \E t \in Range(placed[i].document) :
                          t # NoTriple /\ Range(t) \cap BlankNodes # {}
       IN  Has(DisclosedInPlace(ProvedSpec))

\* ---------------------------------------------------------------- claim C29

\* no two entries of a map are the same index
Injective(map) == \A x, y \in DOMAIN map : map[x] = map[y] => x = y

\* C29: in every index map that gen_index_map returns, document_map and
\* proof_map have no index twice: two disclosed triples of a credential
\* never map to the same triple of the original
C29_IndexMapInjective ==
    LET InjectiveMaps(index_map) ==
            index_map.err = Ok =>
                \A k \in DOMAIN index_map.val :
                    /\ Injective(index_map.val[k].document_map)
                    /\ Injective(index_map.val[k].proof_map)
        Holds(graphs) ==
            graphs.err = Ok =>
                InjectiveMaps(gen_index_map(graphs.original_vc_vec, graphs.disclosed_vc_vec,
                                            graphs.extended_deanon_map))
    IN  ReachedGraphs => Holds(DerivedGraphs)

\* a derivation whose disclosed document has two placeholders for the same
\* term of the original: both triples map to the one original triple, and
\* the index map is that of the presentation
TwoPlaceholdersOfOneTerm ==
    /\ DerivedOk
    /\ \E k \in DOMAIN derived.vp.proof_value.index_map :
           /\ ~Injective(derived.vp.proof_value.index_map[k].document_map)
           /\ Len(derived.vp.proof_value.index_map[k].document_map)
                  = Cardinality(derived.vc_pairs[derived.order[k]].disclosed.document)

\* ---------------------------------------------------------------- claim C30

\* the triples of the graphs of the credentials of a presentation, and of
\* its proof graph
TriplesOfVP(vp) ==
    vp.proof \cup UNION {vp.vcs[k].document \cup vp.vcs[k].proof : k \in DOMAIN vp.vcs}

\* the proof values of the credentials that the holder derives from, of the
\* originals and of the disclosed ones
ProofValuesOfCredentials ==
    UNION {{Obj(t) : t \in triples_for_predicate(derived.vc_pairs[i].original.proof,
                                                 PROOF_VALUE)
                         \cup triples_for_predicate(derived.vc_pairs[i].disclosed.proof,
                                                    PROOF_VALUE)} :
           i \in DOMAIN derived.vc_pairs}

\* the presentation without its proof value
WithoutProofValue(vp) ==
    [proof |-> vp.proof, vcs |-> vp.vcs, holder |-> vp.holder, holder_id |-> vp.holder_id,
     predicates |-> vp.predicates]

\* C30: the presentation that derive_proof returns has no proof value of an
\* original or of a disclosed credential; its one proof value is that of
\* its own proof, the derived composite proof; and without that proof value
\* it is the canonical draft that the context of the proof is bound to
C30_NoSignatureLeak ==
    DerivedOk =>
        /\ triples_for_predicate(TriplesOfVP(derived.vp), PROOF_VALUE) = {}
        /\ \A t \in TriplesOfVP(derived.vp) : Range(t) \cap ProofValuesOfCredentials = {}
        /\ derived.vp.proof_value # NoProofValue
        /\ WithoutProofValue(derived.vp) = ProvedSpec.context.vp
        /\ ProvedSpec.context.vp.vcs = relabel(derived.vp.vcs, issue(derived.vp.vcs))

\* a derivation from a disclosed credential that was given with the proof
\* value of its original
C30_Witness ==
    /\ DerivedOk
    /\ \E i \in DOMAIN derived.vc_pairs :
           triples_for_predicate(derived.vc_pairs[i].disclosed.proof, PROOF_VALUE) # {}
    /\ ProofValuesOfCredentials # {}

====
